---- MODULE Spec2Model ----
(***************************************************************************)
(* A model of the Rhai parser (src/src/parser.rs), of AST merging, and of  *)
(* the native-function registration adapters (src/src/fn_register.rs).     *)
(*                                                                         *)
(* The recursive-descent parser is translated function by function into    *)
(* RECURSIVE operators over a token sequence `toks` and a read position    *)
(* `i` (the Peekable<TokenIterator>), threading the parser `Stack`.  Each  *)
(* parse operator returns a record                                         *)
(*     [err |-> error or NoErr, node |-> Expr or Stmt, i |-> next          *)
(*      position, stack |-> the Stack afterwards]                          *)
(* which stands for Result<_, Box<ParseError>> plus the two &mut           *)
(* arguments.  A Position is the index of the token in the stream.         *)
(***************************************************************************)
EXTENDS Integers, Sequences, FiniteSets, TLC

VARIABLES
    input,        \* parse: the token stream of the script being parsed
    ipos,         \* parse: read position of the Peekable iterator (1-based)
    stack,        \* parse_global_level: the global-level `stack`
    statements,   \* parse_global_level: `statements` collected so far
    functions,    \* parse_global_level: `functions`, the HashMap from hash to FnDef
    result,       \* parse: "parsing", "ok", or "err"
    perr,         \* parse: the ParseError returned (NoErr while none)
    spos,         \* parse_global_level: the read position when the last turn of its loop began
    sstack,       \* parse_global_level: the `stack` when the last turn of its loop began
    ast1,         \* merge: the receiver AST (self)
    ast2,         \* merge: the argument AST (other)
    ast3,         \* merge: a third AST, for chains of merges
    merged,       \* merge: the ASTs returned by the merges made so far
    reg,          \* fn_register: the registration (name, flavour, parameter types, native behaviour)
    call,         \* fn_register: the pending adapter invocation (args, pos)
    outcome,      \* fn_register: what the adapter call produced
    top,          \* time_basic: the function called last ("none", "-", "elapsed")
    ts1,          \* time_basic: the first timestamp handed to the function
    ts2,          \* time_basic: the second timestamp of "-", the present instant of "elapsed"
    tout,         \* time_basic: what the function returned
    cvalue,       \* Expr: what get_constant_value returned for the expression of the first statement
    cstring,      \* Expr: what get_constant_str returned for it
    pure,         \* Stmt: what is_pure returned for the first statement
    no_float,     \* the build: TRUE when the crate is built with the feature no_float
    unchecked     \* the build: TRUE when the crate is built with the feature unchecked

vars == <<input, ipos, stack, statements, functions, result, perr, spos, sstack,
          ast1, ast2, ast3, merged, reg, call, outcome, top, ts1, ts2, tout,
          cvalue, cstring, pure, no_float, unchecked>>

parseVars == <<input, ipos, stack, statements, functions, result, perr, spos, sstack>>
mergeVars == <<ast1, ast2, ast3, merged>>
callVars  == <<reg, call, outcome>>
timeVars  == <<top, ts1, ts2, tout>>
nodeVars  == <<cvalue, cstring, pure>>
buildVars == <<no_float, unchecked>>

(***************************************************************************)
(* Bounds of the model.                                                    *)
(***************************************************************************)
MaxDecls == 2       \* declarations in front of the assignment of a script
MaxChain == 2       \* index, property and method-call links after the root of an assignment target
MaxEntries == 3     \* entries of a map literal
MaxMergeStmts == 2  \* statements per AST in the merge model
MaxParams == 2      \* declared parameters of a registered native function
MaxArgs == 3        \* length of the argument slice handed to an adapter
MaxLevels == 2      \* levels of an index chain a[i][j]
MaxMinus == 3       \* unary minus signs in front of an integer literal
MaxNames == 3       \* parameters of a function definition, names of an export list
MaxOps == 3         \* binary operators in one expression
MaxFns == 3         \* function definitions in one script
TicksPerSecond == 2 \* instants told apart within one second

(***************************************************************************)
(* Tokens (crate::token::Token).  Every token is a record with the same    *)
(* three fields: the variant, its string payload and its integer payload.  *)
(***************************************************************************)
Tok(t, s, v) == [t |-> t, s |-> s, v |-> v]
T(t) == Tok(t, "", 0)
TId(s) == Tok("Identifier", s, 0)
TInt(v) == Tok("IntegerConstant", "", v)
TFlt(v) == Tok("FloatConstant", "", v)
TStr(s) == Tok("StringConst", s, 0)
TChr(s) == Tok("CharConstant", s, 0)
EOF == T("EOF")

\* Peekable::peek / next on the token stream: EOF is returned at and after the end
peek(toks, i) == IF i <= Len(toks) THEN toks[i] ELSE EOF
is_eof(tok) == tok.t = "EOF"

(***************************************************************************)
(* Parse errors: ParseErrorType with its (first) argument, and a position. *)
(***************************************************************************)
PErr2(type, arg, arg2, pos) == [type |-> type, arg |-> arg, arg2 |-> arg2, pos |-> pos]
PErr(type, arg, pos) == PErr2(type, arg, "", pos)
NoErr == PErr("None", "", 0)

(***************************************************************************)
(* The parser's Stack: a sequence of (name, ScopeEntryType).               *)
(***************************************************************************)
Entry(name, typ) == [name |-> name, typ |-> typ]

\* a reverse search that matches entries of every type
Stack_find_any(stk, name) ==
    LET hits == {j \in 1..Len(stk) : stk[j].name = name}
    IN IF hits = {} THEN 0
       ELSE Len(stk) - (CHOOSE j \in hits : \A h \in hits : h <= j) + 1

\* Stack::find: reverse search skipping Module entries; the top is offset 1,
\* 0 stands for None
Stack_find(stk, name) ==
    LET hits == {j \in 1..Len(stk) :
                    /\ stk[j].typ \in {"Normal", "Constant"}
                    /\ stk[j].name = name}
    IN IF hits = {} THEN 0
       ELSE Len(stk) - (CHOOSE j \in hits : \A h \in hits : h <= j) + 1

\* Stack::find_module: reverse search matching Module entries only
Stack_find_module(stk, name) ==
    LET hits == {j \in 1..Len(stk) :
                    /\ stk[j].typ = "Module"
                    /\ stk[j].name = name}
    IN IF hits = {} THEN 0
       ELSE Len(stk) - (CHOOSE j \in hits : \A h \in hits : h <= j) + 1

\* a truncation that drops nothing
truncate_nothing(stk, len) == stk

\* Vec::truncate
truncate(stk, len) == IF len < Len(stk) THEN SubSeq(stk, 1, len) ELSE stk

(***************************************************************************)
(* Function hashes.  calc_fn_hash hashes three streams: the qualifiers,    *)
(* the name and one placeholder per parameter; the model keeps the three   *)
(* hashed streams themselves (the number of placeholders for the third).   *)
(***************************************************************************)
calc_fn_hash(modules, name, num) == [q |-> modules, n |-> name, a |-> num]
NoHash == [q |-> <<>>, n |-> "", a |-> 0 - 1]    \* the literal 0 stored in an unqualified Variable

make_getter(name) == <<"get$", name>>
make_setter(name) == <<"set$", name>>

(***************************************************************************)
(* Expr nodes.                                                             *)
(***************************************************************************)
IntegerConstant(v, pos) == [k |-> "IntegerConstant", v |-> v, pos |-> pos]
\* a FLOAT is kept as the integer it was made from and a sign: Float(n, neg)
\* is n as FLOAT, negated when neg
Float(of, neg) == [of |-> of, neg |-> neg]
FloatConstant(f, pos) == [k |-> "FloatConstant", f |-> f, pos |-> pos]
CharConstant(s, pos) == [k |-> "CharConstant", s |-> s, pos |-> pos]
StringConstant(s, pos) == [k |-> "StringConstant", s |-> s, pos |-> pos]
\* ((name, pos), modules, hash, index); `mindex` is the index kept inside the ModuleRef
Variable(name, pos, modules, mindex, hash, index) ==
    [k |-> "Variable", name |-> name, pos |-> pos, modules |-> modules,
     mindex |-> mindex, hash |-> hash, index |-> index]
Property(name, getter, setter, pos) ==
    [k |-> "Property", name |-> name, getter |-> getter, setter |-> setter, pos |-> pos]
StmtExpr(stmt, pos) == [k |-> "Stmt", stmt |-> stmt, pos |-> pos]
\* ((name, pos), modules, hash, args, default value)
FnCall(name, pos, modules, mindex, hash, args, def) ==
    [k |-> "FnCall", name |-> name, pos |-> pos, modules |-> modules,
     mindex |-> mindex, hash |-> hash, args |-> args, def |-> def]
Assignment(lhs, rhs, pos) == [k |-> "Assignment", lhs |-> lhs, rhs |-> rhs, pos |-> pos]
Dot(lhs, rhs, pos) == [k |-> "Dot", lhs |-> lhs, rhs |-> rhs, pos |-> pos]
Index(lhs, rhs, pos) == [k |-> "Index", lhs |-> lhs, rhs |-> rhs, pos |-> pos]
Array(items, pos) == [k |-> "Array", items |-> items, pos |-> pos]
MapEntry(name, pos, expr) == [name |-> name, pos |-> pos, expr |-> expr]
Map(entries, pos) == [k |-> "Map", entries |-> entries, pos |-> pos]
In(lhs, rhs, pos) == [k |-> "In", lhs |-> lhs, rhs |-> rhs, pos |-> pos]
And(lhs, rhs, pos) == [k |-> "And", lhs |-> lhs, rhs |-> rhs, pos |-> pos]
Or(lhs, rhs, pos) == [k |-> "Or", lhs |-> lhs, rhs |-> rhs, pos |-> pos]
True(pos) == [k |-> "True", pos |-> pos]
False(pos) == [k |-> "False", pos |-> pos]
Unit(pos) == [k |-> "Unit", pos |-> pos]

(***************************************************************************)
(* Stmt nodes.                                                             *)
(***************************************************************************)
Noop(pos) == [k |-> "Noop", pos |-> pos]
IfThenElse(guard, body, has_else, else_body) ==
    [k |-> "IfThenElse", guard |-> guard, body |-> body,
     has_else |-> has_else, else_body |-> else_body]
While(guard, body) == [k |-> "While", guard |-> guard, body |-> body]
Loop(body) == [k |-> "Loop", body |-> body]
For(name, expr, body) == [k |-> "For", name |-> name, expr |-> expr, body |-> body]
Let(name, pos, has_init, init) ==
    [k |-> "Let", name |-> name, pos |-> pos, has_init |-> has_init, init |-> init]
Const(name, pos, init) == [k |-> "Const", name |-> name, pos |-> pos, init |-> init]
Block(stmts, pos) == [k |-> "Block", stmts |-> stmts, pos |-> pos]
ExprStmt(expr) == [k |-> "Expr", expr |-> expr]
Continue(pos) == [k |-> "Continue", pos |-> pos]
Break(pos) == [k |-> "Break", pos |-> pos]
ReturnWithVal(rtype, pos, has_val, val) ==
    [k |-> "ReturnWithVal", rtype |-> rtype, pos |-> pos, has_val |-> has_val, val |-> val]
Import(expr, name, pos) == [k |-> "Import", expr |-> expr, name |-> name, pos |-> pos]
Export(exports) == [k |-> "Export", exports |-> exports]

\* FnDef
FnDef(name, access, params, body, pos) ==
    [name |-> name, access |-> access, params |-> params, body |-> body, pos |-> pos]

(***************************************************************************)
(* Methods of Expr and Stmt.                                               *)
(***************************************************************************)
RECURSIVE Expr_position(_)
\* Expr::position
Expr_position(e) ==
    IF e.k \in {"Assignment", "Dot", "Index"} THEN Expr_position(e.lhs)
    ELSE e.pos

\* is_constant without the descent into array and map literals
is_constant_shallow(e) ==
    CASE e.k \in {"FloatConstant", "IntegerConstant", "CharConstant",
                  "StringConstant", "True", "False", "Unit", "Array", "Map"} -> TRUE
      [] e.k = "In" ->
            \/ e.lhs.k = "StringConstant" /\ e.rhs.k = "StringConstant"
            \/ e.lhs.k = "CharConstant" /\ e.rhs.k = "StringConstant"
      [] OTHER -> FALSE

RECURSIVE is_constant(_)
\* Expr::is_constant
is_constant(e) ==
    CASE e.k \in {"FloatConstant", "IntegerConstant", "CharConstant",
                  "StringConstant", "True", "False", "Unit"} -> TRUE
      [] e.k = "Array" -> \A j \in 1..Len(e.items) : is_constant(e.items[j])
      [] e.k = "Map" -> \A j \in 1..Len(e.entries) : is_constant(e.entries[j].expr)
      [] e.k = "In" ->
            \/ e.lhs.k = "StringConstant" /\ e.rhs.k = "StringConstant"
            \/ e.lhs.k = "CharConstant" /\ e.rhs.k = "StringConstant"
      [] OTHER -> FALSE

\* Expr::is_valid_postfix
is_valid_postfix(e, token) ==
    CASE e.k \in {"FloatConstant", "IntegerConstant", "CharConstant", "In",
                  "And", "Or", "True", "False", "Unit"} -> FALSE
      [] e.k \in {"StringConstant", "Stmt", "FnCall", "Assignment", "Dot",
                  "Index", "Array", "Map"} -> token.t = "LeftBracket"
      [] e.k = "Variable" -> token.t \in {"LeftBracket", "LeftParen", "DoubleColon"}
      [] e.k = "Property" -> token.t \in {"LeftBracket", "LeftParen"}

\* Expr::into_property
into_property(e) ==
    IF e.k = "Variable" /\ e.modules = <<>>
    THEN Property(e.name, make_getter(e.name), make_setter(e.name), e.pos)
    ELSE e

\* Stmt::is_self_terminated
is_self_terminated(st) == st.k \in {"IfThenElse", "While", "Loop", "For", "Block"}

(***************************************************************************)
(* Methods of Token used by the parser.                                    *)
(***************************************************************************)
AssignTokens == {"Equals", "PlusAssign", "MinusAssign", "MultiplyAssign",
                 "DivideAssign", "LeftShiftAssign", "RightShiftAssign",
                 "ModuloAssign", "PowerOfAssign", "AndAssign", "OrAssign",
                 "XOrAssign"}

\* Token::precedence: the ladder, lowest first; assignments (handled by
\* parse_op_assignment_stmt) and every non-operator token are below any
\* parent precedence
precedence(token) ==
    CASE token.t \in {"Or"} -> 30
      [] token.t \in {"And"} -> 40
      [] token.t \in {"Pipe", "XOr"} -> 50
      [] token.t \in {"Ampersand"} -> 60
      [] token.t \in {"EqualsTo", "NotEqualsTo", "In"} -> 70
      [] token.t \in {"LessThan", "LessThanEqualsTo", "GreaterThan",
                      "GreaterThanEqualsTo"} -> 80
      [] token.t \in {"LeftShift", "RightShift"} -> 90
      [] token.t \in {"Plus", "Minus"} -> 100
      [] token.t \in {"Multiply", "Divide", "Modulo"} -> 110
      [] token.t \in {"PowerOf"} -> 120
      [] token.t \in {"Period"} -> 130
      [] OTHER -> 0

\* Token::is_bind_right
is_bind_right(token) == token.t \in AssignTokens \cup {"PowerOf", "Period"}

\* Token::syntax, for the operator tokens
syntax(token) ==
    CASE token.t = "Plus" -> "+"
      [] token.t = "Minus" -> "-"
      [] token.t = "Multiply" -> "*"
      [] token.t = "Divide" -> "/"
      [] token.t = "Modulo" -> "%"
      [] token.t = "PowerOf" -> "~"
      [] token.t = "LeftShift" -> "<<"
      [] token.t = "RightShift" -> ">>"
      [] token.t = "EqualsTo" -> "=="
      [] token.t = "NotEqualsTo" -> "!="
      [] token.t = "LessThan" -> "<"
      [] token.t = "LessThanEqualsTo" -> "<="
      [] token.t = "GreaterThan" -> ">"
      [] token.t = "GreaterThanEqualsTo" -> ">="
      [] token.t = "Ampersand" -> "&"
      [] token.t = "Pipe" -> "|"
      [] token.t = "XOr" -> "^"
      [] token.t = "Or" -> "||"
      [] token.t = "And" -> "&&"
      [] token.t = "In" -> "in"
      [] token.t = "Period" -> "."
      [] OTHER -> token.t

\* The result of a parse function: Err(err) when err # NoErr, else Ok(node),
\* with the iterator position and the Stack as the call leaves them
Ok(node, i, stk) == [err |-> NoErr, node |-> node, i |-> i, stack |-> stk]
Fail(err, i, stk) == [err |-> err, node |-> Unit(0), i |-> i, stack |-> stk]
IsOk(r) == r.err = NoErr

(***************************************************************************)
(* The recursive-descent parser.  `allow` is allow_stmt_expr.              *)
(***************************************************************************)
\* the Position the iterator reports for the token at index i
tpos(toks, i) == IF i <= Len(toks) THEN i ELSE Len(toks) + 1

ModNames(modules) == [j \in 1..Len(modules) |-> modules[j].name]
ModEntry(name, pos) == [name |-> name, pos |-> pos]

\* The parse functions call one another through `descend`, the one recursive
\* operator of the parser: descend("parse_expr", <<toks, i, stk, allow>>) is
\* the call parse_expr(toks, i, stk, allow).
RECURSIVE descend(_, _)

\* a parser loop that never returns
Diverges(f, i, stk) == Fail(PErr("Diverges", f, i), i, stk)

\* the back edge of a parser loop whose turn started at token i: the next
\* turn of the loop f starts at token a[2].  A turn that consumed no token
\* meets the same token stream again, and the loop never returns.
again(i, f, a) == IF a[2] > i THEN descend(f, a) ELSE Diverges(f, i, a[3])
RECURSIVE make_dot_expr(_, _, _, _)

\* parse_paren_expr: `pos` is the position of the ( already consumed
parse_paren_expr(toks, i, stk, pos, allow) ==
    IF peek(toks, i).t = "RightParen" THEN Ok(Unit(pos), i + 1, stk)
    ELSE LET r == descend("parse_expr", <<toks, i, stk, allow>>) IN
         IF ~IsOk(r) THEN r
         ELSE LET tok == peek(toks, r.i) IN
              CASE tok.t = "RightParen" -> Ok(r.node, r.i + 1, r.stack)
                [] tok.t = "LexError" ->
                     Fail(PErr("BadInput", tok.s, tpos(toks, r.i)), r.i + 1, r.stack)
                [] OTHER ->
                     Fail(PErr("MissingToken", ")", tpos(toks, r.i)), r.i + 1, r.stack)

\* the FnCall node of a call hashed with a placeholder for a receiver
call_node_receiver(stk, id, modules, begin, args) ==
    FnCall(id, begin, modules,
           IF modules # <<>> THEN Stack_find_module(stk, modules[1].name) ELSE 0,
           calc_fn_hash(ModNames(modules), id, Len(args) + 1), args, "None")

\* the FnCall node built by parse_call_expr once the ) is consumed
call_node(stk, id, modules, begin, args) ==
    IF modules # <<>>
    THEN FnCall(id, begin, modules, Stack_find_module(stk, modules[1].name),
                calc_fn_hash(ModNames(modules), id, Len(args)), args, "None")
    ELSE FnCall(id, begin, modules, 0,
                calc_fn_hash(<<>>, id, Len(args)), args, "None")

\* parse_call_expr: the ( is already consumed
parse_call_expr(toks, i, stk, id, modules, begin, allow) ==
    LET tok == peek(toks, i) IN
    CASE tok.t = "EOF" -> Fail(PErr("MissingToken", ")", tpos(toks, i)), i, stk)
      [] tok.t = "LexError" -> Fail(PErr("BadInput", tok.s, tpos(toks, i)), i, stk)
      [] tok.t = "RightParen" -> Ok(call_node(stk, id, modules, begin, <<>>), i + 1, stk)
      [] OTHER -> descend("call_args_loop", <<toks, i, stk, id, modules, begin, allow, <<>>>>)

\* the loop of parse_call_expr: one argument, then ) or ,
call_args_loop(toks, i, stk, id, modules, begin, allow, args) ==
    LET r == descend("parse_expr", <<toks, i, stk, allow>>) IN
    IF ~IsOk(r) THEN r
    ELSE LET args2 == Append(args, r.node)
             tok == peek(toks, r.i) IN
         CASE tok.t = "RightParen" ->
                Ok(call_node(r.stack, id, modules, begin, args2), r.i + 1, r.stack)
           [] tok.t = "Comma" ->
                again(i, "call_args_loop", <<toks, r.i + 1, r.stack, id, modules, begin, allow, args2>>)
           [] tok.t = "EOF" ->
                Fail(PErr("MissingToken", ")", tpos(toks, r.i)), r.i, r.stack)
           [] tok.t = "LexError" ->
                Fail(PErr("BadInput", tok.s, tpos(toks, r.i)), r.i, r.stack)
           [] OTHER ->
                Fail(PErr("MissingToken", ",", tpos(toks, r.i)), r.i, r.stack)

\* the match on lhs made by parse_index_chain for an integer or a string index
\* (`ok` are the lhs kinds the index type suits, `bad` the ones it does not)
index_lhs_check(lhs, idx_expr, ok, bad, badmsg) ==
    CASE lhs.k \in ok -> NoErr
      [] lhs.k \in bad -> PErr("MalformedIndexExpr", badmsg, idx_expr.pos)
      [] lhs.k \in {"FloatConstant", "CharConstant", "Assignment", "And", "Or",
                    "In", "True", "False", "Unit"} ->
            PErr("MalformedIndexExpr",
                 "Only arrays, object maps and strings can be indexed", lhs.pos)
      [] OTHER -> NoErr

\* the check of the type of indexing that takes every integer for an index
index_check_unsigned(lhs, idx_expr) ==
    CASE idx_expr.k = "IntegerConstant" ->
            index_lhs_check(lhs, idx_expr, {"Array", "StringConstant"}, {"Map"},
                            "Object map access expects string index, not a number")
      [] idx_expr.k = "StringConstant" ->
            index_lhs_check(lhs, idx_expr, {"Map"}, {"Array", "StringConstant"},
                            "Array or string expects numeric index, not a string")
      [] idx_expr.k = "FloatConstant" ->
            PErr("MalformedIndexExpr",
                 "Array access expects integer index, not a float", idx_expr.pos)
      [] idx_expr.k = "CharConstant" ->
            PErr("MalformedIndexExpr",
                 "Array access expects integer index, not a character", idx_expr.pos)
      [] idx_expr.k \in {"Assignment", "Unit"} ->
            PErr("MalformedIndexExpr",
                 "Array access expects integer index, not ()", idx_expr.pos)
      [] idx_expr.k \in {"And", "Or", "In", "True", "False"} ->
            PErr("MalformedIndexExpr",
                 "Array access expects integer index, not a boolean", idx_expr.pos)
      [] OTHER -> NoErr

\* parse_index_chain: the check of the type of indexing
index_check(lhs, idx_expr) ==
    CASE idx_expr.k = "IntegerConstant" /\ idx_expr.v < 0 ->
            PErr("MalformedIndexExpr",
                 "Array access expects non-negative index", idx_expr.pos)
      [] idx_expr.k = "IntegerConstant" /\ idx_expr.v >= 0 ->
            index_lhs_check(lhs, idx_expr, {"Array", "StringConstant"}, {"Map"},
                            "Object map access expects string index, not a number")
      [] idx_expr.k = "StringConstant" ->
            index_lhs_check(lhs, idx_expr, {"Map"}, {"Array", "StringConstant"},
                            "Array or string expects numeric index, not a string")
      [] idx_expr.k = "FloatConstant" ->
            PErr("MalformedIndexExpr",
                 "Array access expects integer index, not a float", idx_expr.pos)
      [] idx_expr.k = "CharConstant" ->
            PErr("MalformedIndexExpr",
                 "Array access expects integer index, not a character", idx_expr.pos)
      [] idx_expr.k \in {"Assignment", "Unit"} ->
            PErr("MalformedIndexExpr",
                 "Array access expects integer index, not ()", idx_expr.pos)
      [] idx_expr.k \in {"And", "Or", "In", "True", "False"} ->
            PErr("MalformedIndexExpr",
                 "Array access expects integer index, not a boolean", idx_expr.pos)
      [] OTHER -> NoErr

\* parse_index_chain: the [ at `pos` is already consumed
parse_index_chain(toks, i, stk, lhs, pos, allow) ==
    LET r == descend("parse_expr", <<toks, i, stk, allow>>) IN
    IF ~IsOk(r) THEN r
    ELSE LET idx_expr == r.node
             chk == index_check(lhs, idx_expr)
             tok == peek(toks, r.i) IN
         IF chk # NoErr THEN Fail(chk, r.i, r.stack)
         ELSE CASE tok.t = "RightBracket" ->
                     IF peek(toks, r.i + 1).t = "LeftBracket"
                     THEN LET idx == descend("parse_index_chain", <<toks, r.i + 2, r.stack,
                                                       idx_expr, tpos(toks, r.i + 1), allow>>)
                          IN IF ~IsOk(idx) THEN idx
                             ELSE Ok(Index(lhs, idx.node, pos), idx.i, idx.stack)
                     ELSE Ok(Index(lhs, idx_expr, pos), r.i + 1, r.stack)
                [] tok.t = "LexError" ->
                     Fail(PErr("BadInput", tok.s, tpos(toks, r.i)), r.i, r.stack)
                [] OTHER ->
                     Fail(PErr("MissingToken", "]", tpos(toks, r.i)), r.i, r.stack)

\* parse_array_literal: the [ at `pos` is already consumed
parse_array_literal(toks, i, stk, pos, allow) ==
    IF peek(toks, i).t = "RightBracket" THEN Ok(Array(<<>>, pos), i + 1, stk)
    ELSE descend("array_items_loop", <<toks, i, stk, pos, allow, <<>>>>)

\* the while loop of parse_array_literal
array_items_loop(toks, i, stk, pos, allow, arr) ==
    IF is_eof(peek(toks, i)) THEN Ok(Array(arr, pos), i, stk)
    ELSE LET r == descend("parse_expr", <<toks, i, stk, allow>>) IN
         IF ~IsOk(r) THEN r
         ELSE LET arr2 == Append(arr, r.node)
                  tok == peek(toks, r.i) IN
              CASE tok.t = "Comma" ->
                     again(i, "array_items_loop", <<toks, r.i + 1, r.stack, pos, allow, arr2>>)
                [] tok.t = "RightBracket" -> Ok(Array(arr2, pos), r.i + 1, r.stack)
                [] tok.t = "EOF" ->
                     Fail(PErr("MissingToken", "]", tpos(toks, r.i)), r.i, r.stack)
                [] tok.t = "LexError" ->
                     Fail(PErr("BadInput", tok.s, tpos(toks, r.i)), r.i, r.stack)
                [] OTHER ->
                     Fail(PErr("MissingToken", ",", tpos(toks, r.i)), r.i, r.stack)

\* the check for duplicating properties comparing neighbouring entries only
map_dup_check_adjacent(map) ==
    LET firsts == {a \in 1..(Len(map) - 1) : map[a + 1].name = map[a].name}
    IN IF firsts = {} THEN NoErr
       ELSE LET a0 == CHOOSE a \in firsts : \A c \in firsts : a <= c
            IN PErr("DuplicatedProperty", map[a0 + 1].name, map[a0 + 1].pos)

\* parse_map_literal: the check for duplicating properties.  The first entry
\* that has a later entry of the same name decides; the error names and is
\* positioned at the first such later entry
map_dup_check(map) ==
    LET dup(a) == {b \in (a + 1)..Len(map) : map[b].name = map[a].name}
        firsts == {a \in 1..Len(map) : dup(a) # {}}
    IN IF firsts = {} THEN NoErr
       ELSE LET a0 == CHOOSE a \in firsts : \A c \in firsts : a <= c
                b0 == CHOOSE b \in dup(a0) : \A c \in dup(a0) : b <= c
            IN PErr("DuplicatedProperty", map[b0].name, map[b0].pos)

\* the end of parse_map_literal, after its while loop
map_finish(map, pos, i, stk) ==
    IF map_dup_check(map) # NoErr THEN Fail(map_dup_check(map), i, stk)
    ELSE Ok(Map(map, pos), i, stk)

\* parse_map_literal: the #{ at `pos` is already consumed
parse_map_literal(toks, i, stk, pos, allow) ==
    IF peek(toks, i).t = "RightBrace" THEN map_finish(<<>>, pos, i + 1, stk)
    ELSE descend("map_items_loop", <<toks, i, stk, pos, allow, <<>>>>)

\* the while loop of parse_map_literal
map_items_loop(toks, i, stk, pos, allow, map) ==
    LET key == peek(toks, i)
        colon == peek(toks, i + 1) IN
    IF is_eof(key) THEN map_finish(map, pos, i, stk)
    ELSE
    CASE key.t = "LexError" -> Fail(PErr("BadInput", key.s, tpos(toks, i)), i + 1, stk)
      [] key.t \notin {"Identifier", "StringConst", "LexError"} /\ map = <<>> ->
            Fail(PErr("MissingToken", "}", tpos(toks, i)), i + 1, stk)
      [] key.t \notin {"Identifier", "StringConst", "LexError"} /\ map # <<>> ->
            Fail(PErr("PropertyExpected", "", tpos(toks, i)), i + 1, stk)
      [] OTHER ->
         CASE colon.t = "LexError" ->
                Fail(PErr("BadInput", colon.s, tpos(toks, i + 1)), i + 2, stk)
           [] colon.t \notin {"Colon", "LexError"} ->
                Fail(PErr("MissingToken", ":", tpos(toks, i + 1)), i + 2, stk)
           [] OTHER ->
              LET r == descend("parse_expr", <<toks, i + 2, stk, allow>>) IN
              IF ~IsOk(r) THEN r
              ELSE LET map2 == Append(map, MapEntry(key.s, tpos(toks, i), r.node))
                       tok == peek(toks, r.i) IN
                   CASE tok.t = "Comma" ->
                          again(i, "map_items_loop", <<toks, r.i + 1, r.stack, pos, allow, map2>>)
                     [] tok.t = "RightBrace" -> map_finish(map2, pos, r.i + 1, r.stack)
                     [] tok.t = "Identifier" ->
                          Fail(PErr("MissingToken", ",", tpos(toks, r.i)), r.i, r.stack)
                     [] tok.t = "LexError" ->
                          Fail(PErr("BadInput", tok.s, tpos(toks, r.i)), r.i, r.stack)
                     [] OTHER ->
                          Fail(PErr("MissingToken", "}", tpos(toks, r.i)), r.i, r.stack)

\* the Variable node left by the `::` postfix and by the end of parse_primary:
\* a module-qualified variable caches its hash and its module index
primary_finish(toks, i, stk, root_expr) ==
    IF root_expr.k = "Variable" /\ root_expr.modules # <<>>
    THEN Ok(Variable(root_expr.name, root_expr.pos, root_expr.modules,
                     Stack_find_module(stk, root_expr.modules[1].name),
                     calc_fn_hash(ModNames(root_expr.modules), root_expr.name, 0),
                     root_expr.index),
            i, stk)
    ELSE Ok(root_expr, i, stk)

\* parse_primary: the tail processing of all possible postfix operators
primary_postfix(toks, i, stk, root_expr, allow) ==
    LET token == peek(toks, i) IN
    IF ~is_valid_postfix(root_expr, token) THEN primary_finish(toks, i, stk, root_expr)
    ELSE LET r ==
               CASE root_expr.k = "Variable" /\ token.t = "LeftParen" ->
                      descend("parse_call_expr", <<toks, i + 1, stk, root_expr.name,
                                      root_expr.modules, root_expr.pos, allow>>)
                 [] root_expr.k = "Variable" /\ token.t = "DoubleColon" ->
                      IF peek(toks, i + 1).t = "Identifier"
                      THEN Ok(Variable(peek(toks, i + 1).s, tpos(toks, i + 1),
                                       Append(root_expr.modules,
                                              ModEntry(root_expr.name, root_expr.pos)),
                                       root_expr.mindex, NoHash, root_expr.index),
                              i + 2, stk)
                      ELSE Fail(PErr("VariableExpected", "", tpos(toks, i + 1)), i + 2, stk)
                 [] OTHER ->
                      descend("parse_index_chain", <<toks, i + 1, stk, root_expr, tpos(toks, i), allow>>)
         IN IF ~IsOk(r) THEN r
            ELSE descend("primary_postfix", <<toks, r.i, r.stack, r.node, allow>>)

\* parse_primary
parse_primary(toks, i, stk, allow) ==
    LET token == peek(toks, i)
        pos == tpos(toks, i) IN
    CASE token.t = "LeftBrace" /\ allow ->
            LET b == descend("parse_block", <<toks, i, stk, FALSE, allow>>) IN
            IF ~IsOk(b) THEN b ELSE Ok(StmtExpr(b.node, pos), b.i, b.stack)
      [] token.t = "EOF" -> Fail(PErr("UnexpectedEOF", "", pos), i, stk)
      [] OTHER ->
         LET root ==
               CASE token.t = "IntegerConstant" -> Ok(IntegerConstant(token.v, pos), i + 1, stk)
                 [] token.t = "FloatConstant" -> Ok(FloatConstant(Float(token.v, FALSE), pos), i + 1, stk)
                 [] token.t = "CharConstant" -> Ok(CharConstant(token.s, pos), i + 1, stk)
                 [] token.t = "StringConst" -> Ok(StringConstant(token.s, pos), i + 1, stk)
                 [] token.t = "Identifier" ->
                      Ok(Variable(token.s, pos, <<>>, 0, NoHash, Stack_find(stk, token.s)),
                         i + 1, stk)
                 [] token.t = "LeftParen" -> descend("parse_paren_expr", <<toks, i + 1, stk, pos, allow>>)
                 [] token.t = "LeftBracket" -> descend("parse_array_literal", <<toks, i + 1, stk, pos, allow>>)
                 [] token.t = "MapStart" -> descend("parse_map_literal", <<toks, i + 1, stk, pos, allow>>)
                 [] token.t = "True" -> Ok(True(pos), i + 1, stk)
                 [] token.t = "False" -> Ok(False(pos), i + 1, stk)
                 [] token.t = "LexError" -> Fail(PErr("BadInput", token.s, pos), i + 1, stk)
                 [] OTHER -> Fail(PErr("BadInput", syntax(token), pos), i + 1, stk)
         IN IF ~IsOk(root) THEN root
            ELSE descend("primary_postfix", <<toks, root.i, root.stack, root.node, allow>>)

\* INT::checked_neg on the system integer type: None on overflow
MAX_INT == 2147483647
MIN_INT == (0 - MAX_INT) - 1
SomeInt(v) == [some |-> TRUE, val |-> v]
NoInt == [some |-> FALSE, val |-> 0]
\* INT::wrapping_neg in the place of checked_neg
wrapping_neg(num) == IF num = MIN_INT THEN SomeInt(MIN_INT) ELSE SomeInt(0 - num)
checked_neg(num) == IF num = MIN_INT THEN NoInt ELSE SomeInt(0 - num)

\* parse_unary whose ! takes a whole expression as its operand
parse_unary_wide(toks, i, stk, allow) ==
    LET token == peek(toks, i)
        pos == tpos(toks, i) IN
    CASE token.t = "If" ->
            LET r == descend("parse_if", <<toks, i, stk, FALSE, allow>>) IN
            IF ~IsOk(r) THEN r ELSE Ok(StmtExpr(r.node, pos), r.i, r.stack)
      [] token.t = "UnaryMinus" ->
            LET r == descend("parse_unary", <<toks, i + 1, stk, allow>>) IN
            IF ~IsOk(r) THEN r
            ELSE CASE r.node.k = "IntegerConstant" ->
                        IF checked_neg(r.node.v).some
                        THEN Ok(IntegerConstant(checked_neg(r.node.v).val, r.node.pos),
                                r.i, r.stack)
                        ELSE IF ~no_float
                        THEN Ok(FloatConstant(Float(r.node.v, TRUE), r.node.pos), r.i, r.stack)
                        ELSE Fail(PErr("BadInput", "MalformedNumber", r.node.pos), r.i, r.stack)
                   [] r.node.k = "FloatConstant" ->
                        Ok(FloatConstant(Float(r.node.f.of, ~r.node.f.neg), r.node.pos),
                           r.i, r.stack)
                   [] OTHER ->
                        Ok(FnCall("-", pos, <<>>, 0, calc_fn_hash(<<>>, "-", 2),
                                  <<r.node>>, "None"), r.i, r.stack)
      [] token.t = "UnaryPlus" -> descend("parse_unary", <<toks, i + 1, stk, allow>>)
      [] token.t = "Bang" ->
            LET r == descend("parse_expr", <<toks, i + 1, stk, allow>>) IN
            IF ~IsOk(r) THEN r
            ELSE Ok(FnCall("!", pos, <<>>, 0, calc_fn_hash(<<>>, "!", 2),
                           <<r.node>>, "false"), r.i, r.stack)
      [] token.t = "EOF" -> Fail(PErr("UnexpectedEOF", "", pos), i, stk)
      [] OTHER -> descend("parse_primary", <<toks, i, stk, allow>>)

\* parse_unary
parse_unary(toks, i, stk, allow) ==
    LET token == peek(toks, i)
        pos == tpos(toks, i) IN
    CASE token.t = "If" ->
            LET r == descend("parse_if", <<toks, i, stk, FALSE, allow>>) IN
            IF ~IsOk(r) THEN r ELSE Ok(StmtExpr(r.node, pos), r.i, r.stack)
      [] token.t = "UnaryMinus" ->
            LET r == descend("parse_unary", <<toks, i + 1, stk, allow>>) IN
            IF ~IsOk(r) THEN r
            ELSE CASE r.node.k = "IntegerConstant" ->
                        IF checked_neg(r.node.v).some
                        THEN Ok(IntegerConstant(checked_neg(r.node.v).val, r.node.pos),
                                r.i, r.stack)
                        ELSE IF ~no_float
                        THEN Ok(FloatConstant(Float(r.node.v, TRUE), r.node.pos), r.i, r.stack)
                        ELSE Fail(PErr("BadInput", "MalformedNumber", r.node.pos), r.i, r.stack)
                   [] r.node.k = "FloatConstant" ->
                        Ok(FloatConstant(Float(r.node.f.of, ~r.node.f.neg), r.node.pos),
                           r.i, r.stack)
                   [] OTHER ->
                        Ok(FnCall("-", pos, <<>>, 0, calc_fn_hash(<<>>, "-", 2),
                                  <<r.node>>, "None"), r.i, r.stack)
      [] token.t = "UnaryPlus" -> descend("parse_unary", <<toks, i + 1, stk, allow>>)
      [] token.t = "Bang" ->
            LET r == descend("parse_primary", <<toks, i + 1, stk, allow>>) IN
            IF ~IsOk(r) THEN r
            ELSE Ok(FnCall("!", pos, <<>>, 0, calc_fn_hash(<<>>, "!", 2),
                           <<r.node>>, "false"), r.i, r.stack)
      [] token.t = "EOF" -> Fail(PErr("UnexpectedEOF", "", pos), i, stk)
      [] OTHER -> descend("parse_primary", <<toks, i, stk, allow>>)

\* Result<Expr, _> of the two make_* functions, which read no input
Made(node) == [err |-> NoErr, node |-> node]
NotMade(err) == [err |-> err, node |-> Unit(0)]

\* make_dot_expr
make_dot_expr(lhs, rhs, op_pos, is_index) ==
    CASE lhs.k = "Index" ->
            \* idx_lhs[idx_rhs].rhs: attach the dot chain to the bottom level of the indexing chain
            LET sub == make_dot_expr(lhs.rhs, rhs, op_pos, TRUE) IN
            IF sub.err # NoErr THEN sub ELSE Made(Index(lhs.lhs, sub.node, lhs.pos))
      [] lhs.k # "Index" /\ rhs.k = "Variable" /\ rhs.modules = <<>> ->
            Made(Dot(IF is_index THEN into_property(lhs) ELSE lhs,
                     Property(rhs.name, make_getter(rhs.name), make_setter(rhs.name), rhs.pos),
                     op_pos))
      [] lhs.k # "Index" /\ rhs.k = "Property" ->
            Made(Dot(IF is_index THEN into_property(lhs) ELSE lhs, rhs, op_pos))
      [] lhs.k # "Index" /\ rhs.k = "Variable" /\ rhs.modules # <<>> ->
            NotMade(PErr("PropertyExpected", "", rhs.modules[1].pos))
      [] lhs.k # "Index" /\ rhs.k = "Dot" ->
            Made(Dot(lhs,
                     Dot(into_property(rhs.lhs), into_property(rhs.rhs), rhs.pos),
                     op_pos))
      [] lhs.k # "Index" /\ rhs.k = "Index" ->
            Made(Dot(lhs,
                     Index(into_property(rhs.lhs), into_property(rhs.rhs), rhs.pos),
                     op_pos))
      [] OTHER -> Made(Dot(lhs, into_property(rhs), op_pos))

\* make_in_expr: the lhs kinds rejected for a string or object-map rhs
InBadLhs == {"FloatConstant", "IntegerConstant", "And", "Or", "In", "True",
             "False", "Array", "Map", "Assignment", "Unit"}

\* make_in_expr
make_in_expr(lhs, rhs, op_pos) ==
    CASE rhs.k \in {"IntegerConstant", "And", "Or", "In", "Assignment", "True",
                    "False", "Unit", "FloatConstant"} ->
            NotMade(PErr("MalformedInExpr",
                         "'in' expression expects a string, array or object map", rhs.pos))
      [] rhs.k = "StringConstant" /\ lhs.k \in InBadLhs ->
            NotMade(PErr("MalformedInExpr",
                         "'in' expression for a string expects a string", lhs.pos))
      [] rhs.k = "Map" /\ lhs.k \in InBadLhs ->
            NotMade(PErr("MalformedInExpr",
                         "'in' expression for an object map expects a string", lhs.pos))
      [] OTHER -> Made(In(lhs, rhs, op_pos))

\* the operators parse_binary_op turns into a FnCall, and those among them
\* that carry the default value Some(false)
FnOpTokens == {"Plus", "Minus", "Multiply", "Divide", "LeftShift", "RightShift",
               "Modulo", "PowerOf", "EqualsTo", "NotEqualsTo", "LessThan",
               "LessThanEqualsTo", "GreaterThan", "GreaterThanEqualsTo",
               "Ampersand", "Pipe", "XOr"}
\* every operator with the default of the comparisons
CmpTokens_every == FnOpTokens

CmpTokens == {"EqualsTo", "NotEqualsTo", "LessThan", "LessThanEqualsTo",
              "GreaterThan", "GreaterThanEqualsTo"}

\* parse_binary_op: the node built from current_lhs, the operator and rhs
binary_node(op_token, pos, current_lhs, rhs) ==
    CASE op_token.t \in FnOpTokens ->
            Made(FnCall(syntax(op_token), pos, <<>>, 0,
                        calc_fn_hash(<<>>, syntax(op_token), 2),
                        <<current_lhs, rhs>>,
                        IF op_token.t \in CmpTokens THEN "false" ELSE "None"))
      [] op_token.t = "Or" -> Made(Or(current_lhs, rhs, pos))
      [] op_token.t = "And" -> Made(And(current_lhs, rhs, pos))
      [] op_token.t = "In" -> make_in_expr(current_lhs, rhs, pos)
      [] op_token.t = "Period" ->
            \* current_lhs.rhs(...) - method call: the hash is recalculated
            \* because there is an additional argument
            make_dot_expr(current_lhs,
                          IF rhs.k = "FnCall"
                          THEN [rhs EXCEPT !.hash = calc_fn_hash(<<>>, rhs.name, Len(rhs.args) + 1)]
                          ELSE rhs,
                          pos, FALSE)
      [] OTHER -> NotMade(PErr("UnknownOperator", syntax(op_token), pos))

\* parse_binary_op whose right operand goes on only to a higher precedence
parse_binary_op_leftward(toks, i, stk, parent_precedence, lhs, allow) ==
    LET current_op == peek(toks, i)
        current_precedence == precedence(current_op)
        bind_right == is_bind_right(current_op) IN
    IF \/ current_precedence < parent_precedence
       \/ (current_precedence = parent_precedence /\ ~bind_right)
    THEN Ok(lhs, i, stk)
    ELSE LET pos == tpos(toks, i)
             u == descend("parse_unary", <<toks, i + 1, stk, allow>>) IN
         IF ~IsOk(u) THEN u
         ELSE LET next_precedence == precedence(peek(toks, u.i))
                  r == IF current_precedence < next_precedence
                       THEN descend("parse_binary_op", <<toks, u.i, u.stack, current_precedence, u.node, allow>>)
                       ELSE u
              IN IF ~IsOk(r) THEN r
                 ELSE LET n == binary_node(current_op, pos, lhs, r.node) IN
                      IF n.err # NoErr THEN Fail(n.err, r.i, r.stack)
                      ELSE descend("parse_binary_op", <<toks, r.i, r.stack, parent_precedence, n.node, allow>>)

\* parse_binary_op: one turn of its loop per call, on the current lhs
parse_binary_op(toks, i, stk, parent_precedence, lhs, allow) ==
    LET current_op == peek(toks, i)
        current_precedence == precedence(current_op)
        bind_right == is_bind_right(current_op) IN
    IF \/ current_precedence < parent_precedence
       \/ (current_precedence = parent_precedence /\ ~bind_right)
    THEN Ok(lhs, i, stk)
    ELSE LET pos == tpos(toks, i)
             u == descend("parse_unary", <<toks, i + 1, stk, allow>>) IN
         IF ~IsOk(u) THEN u
         ELSE LET next_precedence == precedence(peek(toks, u.i))
                  r == IF \/ (current_precedence = next_precedence /\ bind_right)
                          \/ current_precedence < next_precedence
                       THEN descend("parse_binary_op", <<toks, u.i, u.stack, current_precedence, u.node, allow>>)
                       ELSE u
              IN IF ~IsOk(r) THEN r
                 ELSE LET n == binary_node(current_op, pos, lhs, r.node) IN
                      IF n.err # NoErr THEN Fail(n.err, r.i, r.stack)
                      ELSE again(i, "parse_binary_op", <<toks, r.i, r.stack, parent_precedence, n.node, allow>>)

\* parse_expr
parse_expr(toks, i, stk, allow) ==
    LET lhs == descend("parse_unary", <<toks, i, stk, allow>>) IN
    IF ~IsOk(lhs) THEN lhs
    ELSE descend("parse_binary_op", <<toks, lhs.i, lhs.stack, 1, lhs.node, allow>>)

\* a panic of the parser (unreachable!(), an index out of bounds)
Panic(what) == PErr("Panic", what, 0)

\* make_assignment_stmt: the match on the Stack entry a resolved Variable `x`
\* points at, stack[stack.len() - index]
assign_to_variable(stk, x, lhs, rhs, pos) ==
    IF x.index = 0 THEN Made(Assignment(lhs, rhs, pos))
    ELSE IF x.index > Len(stk) THEN NotMade(Panic("index out of bounds"))
    ELSE LET typ == stk[Len(stk) - x.index + 1].typ IN
         CASE typ = "Normal" -> Made(Assignment(lhs, rhs, pos))
           [] typ = "Constant" -> NotMade(PErr("AssignmentToConstant", x.name, x.pos))
           [] OTHER -> NotMade(Panic("unreachable"))

\* make_assignment_stmt without the look at the Stack for index and dot chains
make_assignment_stmt_unchecked_chain(stk, lhs, rhs, pos) ==
    CASE lhs.k = "Variable" -> assign_to_variable(stk, lhs, lhs, rhs, pos)
      [] lhs.k \in {"Index", "Dot"} ->
            IF lhs.lhs.k = "Variable"
            THEN Made(Assignment(lhs, rhs, pos))
            ELSE NotMade(PErr("AssignmentToCopy", "", Expr_position(lhs.lhs)))
      [] lhs.k \notin {"Variable", "Index", "Dot"} /\ is_constant(lhs) ->
            NotMade(PErr("AssignmentToConstant", "", Expr_position(lhs)))
      [] OTHER -> NotMade(PErr("AssignmentToCopy", "", Expr_position(lhs)))

\* make_assignment_stmt
make_assignment_stmt(stk, lhs, rhs, pos) ==
    CASE lhs.k = "Variable" -> assign_to_variable(stk, lhs, lhs, rhs, pos)
      [] lhs.k \in {"Index", "Dot"} ->
            IF lhs.lhs.k = "Variable"
            THEN assign_to_variable(stk, lhs.lhs, lhs, rhs, pos)
            ELSE NotMade(PErr("AssignmentToCopy", "", Expr_position(lhs.lhs)))
      [] lhs.k \notin {"Variable", "Index", "Dot"} /\ is_constant(lhs) ->
            NotMade(PErr("AssignmentToConstant", "", Expr_position(lhs)))
      [] OTHER -> NotMade(PErr("AssignmentToCopy", "", Expr_position(lhs)))

\* parse_op_assignment_stmt: the operator an op-assignment token stands for
assign_op(token) ==
    CASE token.t = "PlusAssign" -> "+"
      [] token.t = "MinusAssign" -> "-"
      [] token.t = "MultiplyAssign" -> "*"
      [] token.t = "DivideAssign" -> "/"
      [] token.t = "LeftShiftAssign" -> "<<"
      [] token.t = "RightShiftAssign" -> ">>"
      [] token.t = "ModuloAssign" -> "%"
      [] token.t = "PowerOfAssign" -> "~"
      [] token.t = "AndAssign" -> "&"
      [] token.t = "OrAssign" -> "|"
      [] token.t = "XOrAssign" -> "^"

\* parse_op_assignment_stmt
parse_op_assignment_stmt(toks, i, stk, lhs, allow) ==
    LET token == peek(toks, i)
        pos == tpos(toks, i) IN
    IF token.t \notin AssignTokens THEN Ok(lhs, i, stk)
    ELSE LET r == descend("parse_expr", <<toks, i + 1, stk, allow>>) IN
         IF ~IsOk(r) THEN r
         ELSE LET rhs_expr ==
                    IF token.t = "Equals" THEN r.node
                    ELSE \* lhs op= rhs -> lhs = op(lhs, rhs)
                         FnCall(assign_op(token), pos, <<>>, 0,
                                calc_fn_hash(<<>>, assign_op(token), 2),
                                <<lhs, r.node>>, "None")
                  a == make_assignment_stmt(r.stack, lhs, rhs_expr, pos)
              IN IF a.err # NoErr THEN Fail(a.err, r.i, r.stack)
                 ELSE Ok(a.node, r.i, r.stack)

\* parse_expr_stmt
parse_expr_stmt(toks, i, stk, allow) ==
    LET e == descend("parse_expr", <<toks, i, stk, allow>>) IN
    IF ~IsOk(e) THEN e
    ELSE LET a == parse_op_assignment_stmt(toks, e.i, e.stack, e.node, allow) IN
         IF ~IsOk(a) THEN a ELSE Ok(ExprStmt(a.node), a.i, a.stack)

\* ensure_not_statement_expr
ensure_not_statement_expr(toks, i, type_name) ==
    IF peek(toks, i).t \in {"LeftBrace", "EOF"}
    THEN PErr("ExprExpected", type_name, tpos(toks, i))
    ELSE NoErr

\* ensure_not_assignment
ensure_not_assignment(toks, i) ==
    CASE peek(toks, i).t = "Equals" ->
            PErr("BadInput", "Possibly a typo of '=='?", tpos(toks, i))
      [] peek(toks, i).t \in AssignTokens \ {"Equals"} ->
            PErr("BadInput", "Expecting a boolean expression, not an assignment", tpos(toks, i))
      [] OTHER -> NoErr

\* the shared head of parse_if and parse_while: the guard, which must be an
\* expression and not an assignment, then the body block
guard_and_body(toks, i, stk, breakable, allow) ==
    IF ensure_not_statement_expr(toks, i, "a boolean") # NoErr
    THEN [g |-> Fail(ensure_not_statement_expr(toks, i, "a boolean"), i, stk),
          b |-> Fail(ensure_not_statement_expr(toks, i, "a boolean"), i, stk)]
    ELSE LET g == descend("parse_expr", <<toks, i, stk, allow>>) IN
         IF ~IsOk(g) THEN [g |-> g, b |-> g]
         ELSE IF ensure_not_assignment(toks, g.i) # NoErr
         THEN [g |-> g, b |-> Fail(ensure_not_assignment(toks, g.i), g.i, g.stack)]
         ELSE [g |-> g, b |-> descend("parse_block", <<toks, g.i, g.stack, breakable, allow>>)]

\* parse_if parsing what follows `else` as outside every loop
parse_if_else_unbreakable(toks, i, stk, breakable, allow) ==
    LET gb == guard_and_body(toks, i + 1, stk, breakable, allow) IN
    IF ~IsOk(gb.b) THEN gb.b
    ELSE IF peek(toks, gb.b.i).t = "Else"
    THEN LET e == IF peek(toks, gb.b.i + 1).t = "If"
                  THEN descend("parse_if", <<toks, gb.b.i + 1, gb.b.stack, FALSE, allow>>)
                  ELSE descend("parse_block", <<toks, gb.b.i + 1, gb.b.stack, FALSE, allow>>)
         IN IF ~IsOk(e) THEN e
            ELSE Ok(IfThenElse(gb.g.node, gb.b.node, TRUE, e.node), e.i, e.stack)
    ELSE Ok(IfThenElse(gb.g.node, gb.b.node, FALSE, Noop(0)), gb.b.i, gb.b.stack)

\* parse_if: the `if` is at position i
parse_if(toks, i, stk, breakable, allow) ==
    LET gb == guard_and_body(toks, i + 1, stk, breakable, allow) IN
    IF ~IsOk(gb.b) THEN gb.b
    ELSE IF peek(toks, gb.b.i).t = "Else"
    THEN LET e == IF peek(toks, gb.b.i + 1).t = "If"
                  THEN descend("parse_if", <<toks, gb.b.i + 1, gb.b.stack, breakable, allow>>)
                  ELSE descend("parse_block", <<toks, gb.b.i + 1, gb.b.stack, breakable, allow>>)
         IN IF ~IsOk(e) THEN e
            ELSE Ok(IfThenElse(gb.g.node, gb.b.node, TRUE, e.node), e.i, e.stack)
    ELSE Ok(IfThenElse(gb.g.node, gb.b.node, FALSE, Noop(0)), gb.b.i, gb.b.stack)

\* parse_while: the `while` is at position i
parse_while(toks, i, stk, allow) ==
    LET gb == guard_and_body(toks, i + 1, stk, TRUE, allow) IN
    IF ~IsOk(gb.b) THEN gb.b
    ELSE Ok(While(gb.g.node, gb.b.node), gb.b.i, gb.b.stack)

\* parse_loop: the `loop` is at position i
parse_loop(toks, i, stk, allow) ==
    LET body == descend("parse_block", <<toks, i + 1, stk, TRUE, allow>>) IN
    IF ~IsOk(body) THEN body ELSE Ok(Loop(body.node), body.i, body.stack)

\* parse_for: the `for` is at position i
parse_for(toks, i, stk, allow) ==
    LET name == peek(toks, i + 1)
        in == peek(toks, i + 2) IN
    CASE name.t = "LexError" -> Fail(PErr("BadInput", name.s, tpos(toks, i + 1)), i + 2, stk)
      [] name.t \notin {"Identifier", "LexError"} ->
            Fail(PErr("VariableExpected", "", tpos(toks, i + 1)), i + 2, stk)
      [] name.t = "Identifier" /\ in.t = "LexError" ->
            Fail(PErr("BadInput", in.s, tpos(toks, i + 2)), i + 3, stk)
      [] name.t = "Identifier" /\ in.t \notin {"In", "LexError"} ->
            Fail(PErr("MissingToken", "in", tpos(toks, i + 2)), i + 3, stk)
      [] OTHER ->
            IF ensure_not_statement_expr(toks, i + 3, "a boolean") # NoErr
            THEN Fail(ensure_not_statement_expr(toks, i + 3, "a boolean"), i + 3, stk)
            ELSE LET expr == descend("parse_expr", <<toks, i + 3, stk, allow>>) IN
                 IF ~IsOk(expr) THEN expr
                 ELSE LET prev_len == Len(expr.stack)
                          body == descend("parse_block", <<toks, expr.i,
                                              Append(expr.stack, Entry(name.s, "Normal")),
                                              TRUE, allow>>)
                      IN IF ~IsOk(body) THEN body
                         ELSE Ok(For(name.s, expr.node, body.node), body.i,
                                 truncate(body.stack, prev_len))

\* parse_let: the `let` or `const` (given by var_type) is at position i
parse_let(toks, i, stk, var_type, allow) ==
    LET name == peek(toks, i + 1)
        pos == tpos(toks, i + 1) IN
    CASE name.t = "LexError" -> Fail(PErr("BadInput", name.s, pos), i + 2, stk)
      [] name.t \notin {"Identifier", "LexError"} ->
            Fail(PErr("VariableExpected", "", pos), i + 2, stk)
      [] OTHER ->
         IF peek(toks, i + 2).t = "Equals"
         THEN LET r == descend("parse_expr", <<toks, i + 3, stk, allow>>) IN
              IF ~IsOk(r) THEN r
              ELSE CASE var_type = "Normal" ->
                          Ok(Let(name.s, pos, TRUE, r.node), r.i,
                             Append(r.stack, Entry(name.s, "Normal")))
                     [] var_type = "Constant" /\ is_constant(r.node) ->
                          Ok(Const(name.s, pos, r.node), r.i,
                             Append(r.stack, Entry(name.s, "Constant")))
                     [] var_type = "Constant" /\ ~is_constant(r.node) ->
                          Fail(PErr("ForbiddenConstantExpr", name.s, Expr_position(r.node)),
                               r.i, r.stack)
                     [] OTHER -> Fail(Panic("unreachable"), r.i, r.stack)
         ELSE CASE var_type = "Normal" ->
                     Ok(Let(name.s, pos, FALSE, Unit(0)), i + 2,
                        Append(stk, Entry(name.s, "Normal")))
                [] var_type = "Constant" ->
                     Ok(Const(name.s, pos, Unit(pos)), i + 2,
                        Append(stk, Entry(name.s, "Constant")))
                [] OTHER -> Fail(Panic("unreachable"), i + 2, stk)

\* parse_import: the `import` is at position i
parse_import(toks, i, stk, allow) ==
    LET expr == descend("parse_expr", <<toks, i + 1, stk, allow>>) IN
    IF ~IsOk(expr) THEN expr
    ELSE LET as == peek(toks, expr.i)
             name == peek(toks, expr.i + 1) IN
         CASE as.t # "As" ->
                Fail(PErr("MissingToken", "as", tpos(toks, expr.i)), expr.i + 1, expr.stack)
           [] as.t = "As" /\ name.t = "LexError" ->
                Fail(PErr("BadInput", name.s, tpos(toks, expr.i + 1)), expr.i + 2, expr.stack)
           [] as.t = "As" /\ name.t \notin {"Identifier", "LexError"} ->
                Fail(PErr("VariableExpected", "", tpos(toks, expr.i + 1)), expr.i + 2, expr.stack)
           [] OTHER ->
                Ok(Import(expr.node, name.s, tpos(toks, i)), expr.i + 2,
                   Append(expr.stack, Entry(name.s, "Module")))

\* the check for duplicating names comparing neighbouring names only
first_duplicate_adjacent(names) ==
    LET firsts == {a \in 1..(Len(names) - 1) : names[a + 1] = names[a]}
    IN IF firsts = {} THEN 0
       ELSE (CHOOSE a \in firsts : \A c \in firsts : a <= c) + 1

\* the check for duplicating names shared by parse_export and parse_fn: the
\* first name that has a later duplicate decides, and the first such later
\* occurrence is reported.  0 when there is none, else the index of that occurrence
first_duplicate(names) ==
    LET dup(a) == {b \in (a + 1)..Len(names) : names[b] = names[a]}
        firsts == {a \in 1..Len(names) : dup(a) # {}}
    IN IF firsts = {} THEN 0
       ELSE LET a0 == CHOOSE a \in firsts : \A c \in firsts : a <= c
            IN CHOOSE b \in dup(a0) : \A c \in dup(a0) : b <= c

ExportEntry(name, pos, has_rename, rename) ==
    [name |-> name, pos |-> pos, has_rename |-> has_rename, rename |-> rename]

RECURSIVE export_loop(_, _, _, _)
\* the loop of parse_export and the check that follows it
export_loop(toks, i, stk, exports) ==
    LET id == peek(toks, i)
        has_as == peek(toks, i + 1).t = "As"
        ren == peek(toks, i + 2)
        j == IF has_as THEN i + 3 ELSE i + 1
        exports2 == Append(exports,
                           ExportEntry(id.s, tpos(toks, i), has_as, IF has_as THEN ren.s ELSE ""))
        dup == first_duplicate([n \in 1..Len(exports2) |-> exports2[n].name]) IN
    CASE id.t = "LexError" -> Fail(PErr("BadInput", id.s, tpos(toks, i)), i + 1, stk)
      [] id.t \notin {"Identifier", "LexError"} ->
            Fail(PErr("VariableExpected", "", tpos(toks, i)), i + 1, stk)
      [] id.t = "Identifier" /\ has_as /\ ren.t # "Identifier" ->
            Fail(PErr("VariableExpected", "", tpos(toks, i + 2)), i + 3, stk)
      [] OTHER ->
            CASE peek(toks, j).t = "Comma" -> export_loop(toks, j + 1, stk, exports2)
              [] peek(toks, j).t = "Identifier" ->
                    Fail(PErr("MissingToken", ",", tpos(toks, j)), j, stk)
              [] OTHER ->
                    IF dup # 0
                    THEN Fail(PErr("DuplicatedExport", exports2[dup].name, exports2[dup].pos),
                              j, stk)
                    ELSE Ok(Export(exports2), j, stk)

\* parse_export: the `export` is at position i
parse_export(toks, i, stk) == export_loop(toks, i + 1, stk, <<>>)

\* parse_block
parse_block(toks, i, stk, breakable, allow) ==
    LET tok == peek(toks, i) IN
    CASE tok.t = "LeftBrace" ->
            descend("block_loop", <<toks, i + 1, stk, breakable, allow, <<>>, tpos(toks, i), Len(stk)>>)
      [] tok.t = "LexError" -> Fail(PErr("BadInput", tok.s, tpos(toks, i)), i + 1, stk)
      [] OTHER -> Fail(PErr("MissingToken", "{", tpos(toks, i)), i + 1, stk)

\* the while loop of parse_block leaving the `;` after a statement in the stream
block_loop_keeps_semicolon(toks, i, stk, breakable, allow, stmts, pos, prev_len) ==
    IF peek(toks, i).t = "RightBrace"
    THEN Ok(Block(stmts, pos), i + 1, truncate(stk, prev_len))
    ELSE LET r == descend("parse_stmt", <<toks, i, stk, breakable, FALSE, allow>>) IN
         IF ~IsOk(r) THEN r
         ELSE LET need_semicolon == ~is_self_terminated(r.node)
                  stmts2 == Append(stmts, r.node)
                  tok == peek(toks, r.i) IN
              CASE tok.t = "RightBrace" ->
                     Ok(Block(stmts2, pos), r.i + 1, truncate(r.stack, prev_len))
                [] tok.t = "SemiColon" \/ (tok.t # "RightBrace" /\ ~need_semicolon) ->
                     again(i, "block_loop", <<toks, r.i, r.stack, breakable, allow, stmts2, pos, prev_len>>)
                [] tok.t = "LexError" /\ need_semicolon ->
                     Fail(PErr("BadInput", tok.s, tpos(toks, r.i)), r.i, r.stack)
                [] OTHER ->
                     Fail(PErr("MissingToken", ";", tpos(toks, r.i)), r.i, r.stack)

\* the while loop of parse_block; when it ends the Stack is truncated to prev_len
block_loop(toks, i, stk, breakable, allow, stmts, pos, prev_len) ==
    IF peek(toks, i).t = "RightBrace"
    THEN Ok(Block(stmts, pos), i + 1, truncate(stk, prev_len))
    ELSE LET r == descend("parse_stmt", <<toks, i, stk, breakable, FALSE, allow>>) IN
         IF ~IsOk(r) THEN r
         ELSE LET need_semicolon == ~is_self_terminated(r.node)
                  stmts2 == Append(stmts, r.node)
                  tok == peek(toks, r.i) IN
              CASE tok.t = "RightBrace" ->
                     Ok(Block(stmts2, pos), r.i + 1, truncate(r.stack, prev_len))
                [] tok.t = "SemiColon" /\ need_semicolon ->
                     again(i, "block_loop", <<toks, r.i + 1, r.stack, breakable, allow, stmts2, pos, prev_len>>)
                [] tok.t # "RightBrace" /\ ~need_semicolon ->
                     again(i, "block_loop", <<toks, r.i, r.stack, breakable, allow, stmts2, pos, prev_len>>)
                [] tok.t = "LexError" /\ need_semicolon ->
                     Fail(PErr("BadInput", tok.s, tpos(toks, r.i)), r.i, r.stack)
                [] OTHER ->
                     Fail(PErr("MissingToken", ";", tpos(toks, r.i)), r.i, r.stack)

\* parse_stmt: the `return` or `throw` statement at position i
parse_return(toks, i, stk, allow) ==
    LET return_type == IF peek(toks, i).t = "Return" THEN "Return" ELSE "Exception"
        tok == peek(toks, i + 1) IN
    CASE tok.t = "EOF" ->
            Ok(ReturnWithVal(return_type, tpos(toks, i + 1), FALSE, Unit(0)), i + 1, stk)
      [] tok.t = "SemiColon" ->
            Ok(ReturnWithVal(return_type, tpos(toks, i), FALSE, Unit(0)), i + 1, stk)
      [] OTHER ->
            LET expr == descend("parse_expr", <<toks, i + 1, stk, allow>>) IN
            IF ~IsOk(expr) THEN expr
            ELSE Ok(ReturnWithVal(return_type, Expr_position(expr.node), TRUE, expr.node),
                    expr.i, expr.stack)

\* parse_stmt
parse_stmt(toks, i, stk, breakable, is_global, allow) ==
    LET token == peek(toks, i)
        pos == tpos(toks, i) IN
    CASE token.t \in {"EOF", "SemiColon"} -> Ok(Noop(pos), i, stk)
      [] token.t = "LeftBrace" -> descend("parse_block", <<toks, i, stk, breakable, allow>>)
      [] token.t = "Fn" ->
            IF ~is_global THEN Fail(PErr("WrongFnDefinition", "", pos), i, stk)
            ELSE Fail(Panic("unreachable"), i, stk)
      [] token.t = "If" -> descend("parse_if", <<toks, i, stk, breakable, allow>>)
      [] token.t = "While" -> parse_while(toks, i, stk, allow)
      [] token.t = "Loop" -> parse_loop(toks, i, stk, allow)
      [] token.t = "For" -> parse_for(toks, i, stk, allow)
      [] token.t = "Continue" ->
            IF breakable THEN Ok(Continue(pos), i + 1, stk)
            ELSE Fail(PErr("LoopBreak", "", pos), i, stk)
      [] token.t = "Break" ->
            IF breakable THEN Ok(Break(pos), i + 1, stk)
            ELSE Fail(PErr("LoopBreak", "", pos), i, stk)
      [] token.t \in {"Return", "Throw"} -> parse_return(toks, i, stk, allow)
      [] token.t = "Let" -> parse_let(toks, i, stk, "Normal", allow)
      [] token.t = "Const" -> parse_let(toks, i, stk, "Constant", allow)
      [] token.t = "Import" -> parse_import(toks, i, stk, allow)
      [] token.t = "Export" ->
            IF ~is_global THEN Fail(PErr("WrongExport", "", pos), i, stk)
            ELSE parse_export(toks, i, stk)
      [] OTHER -> parse_expr_stmt(toks, i, stk, allow)

Param(name, pos) == [name |-> name, pos |-> pos]

RECURSIVE fn_params_loop(_, _, _, _)
\* parse_fn: the loop over the parameters list; every parameter is pushed on the Stack
fn_params_loop(toks, i, stk, params) ==
    LET p == peek(toks, i)
        sep == peek(toks, i + 1)
        stk2 == Append(stk, Entry(p.s, "Normal"))
        params2 == Append(params, Param(p.s, tpos(toks, i))) IN
    CASE p.t = "LexError" -> Fail(PErr("BadInput", p.s, tpos(toks, i)), i + 1, stk)
      [] p.t \notin {"Identifier", "LexError"} ->
            Fail(PErr("MissingToken", ")", tpos(toks, i)), i + 1, stk)
      [] OTHER ->
            CASE sep.t = "RightParen" ->
                    [err |-> NoErr, node |-> Unit(0), i |-> i + 2, stack |-> stk2,
                     params |-> params2]
              [] sep.t = "Comma" -> fn_params_loop(toks, i + 2, stk2, params2)
              [] sep.t = "LexError" ->
                    Fail(PErr("BadInput", sep.s, tpos(toks, i + 1)), i + 2, stk2)
              [] OTHER -> Fail(PErr("MissingToken", ",", tpos(toks, i + 1)), i + 2, stk2)

\* parse_fn with a body that may break
parse_fn_breakable(toks, i, stk, access, allow) ==
    LET name == peek(toks, i + 1) IN
    CASE name.t # "Identifier" -> Fail(PErr("FnMissingName", "", tpos(toks, i + 1)), i + 2, stk)
      [] name.t = "Identifier" /\ peek(toks, i + 2).t # "LeftParen" ->
            Fail(PErr("FnMissingParams", name.s, tpos(toks, i + 2)), i + 2, stk)
      [] OTHER ->
         LET ps == IF peek(toks, i + 3).t = "RightParen"
                   THEN [err |-> NoErr, node |-> Unit(0), i |-> i + 4, stack |-> stk,
                         params |-> <<>>]
                   ELSE fn_params_loop(toks, i + 3, stk, <<>>) IN
         IF ~IsOk(ps) THEN ps
         ELSE LET dup == first_duplicate([n \in 1..Len(ps.params) |-> ps.params[n].name]) IN
              IF dup # 0
              THEN Fail(PErr2("FnDuplicatedParam", name.s, ps.params[dup].name,
                              ps.params[dup].pos), ps.i, ps.stack)
              ELSE IF peek(toks, ps.i).t # "LeftBrace"
              THEN Fail(PErr("FnMissingBody", name.s, tpos(toks, ps.i)), ps.i, ps.stack)
              ELSE LET body == descend("parse_block", <<toks, ps.i, ps.stack, TRUE, allow>>) IN
                   IF ~IsOk(body) THEN body
                   ELSE Ok(FnDef(name.s, access,
                                 [n \in 1..Len(ps.params) |-> ps.params[n].name],
                                 body.node, tpos(toks, i)),
                           body.i, body.stack)

\* parse_fn: the `fn` is at position i
parse_fn(toks, i, stk, access, allow) ==
    LET name == peek(toks, i + 1) IN
    CASE name.t # "Identifier" -> Fail(PErr("FnMissingName", "", tpos(toks, i + 1)), i + 2, stk)
      [] name.t = "Identifier" /\ peek(toks, i + 2).t # "LeftParen" ->
            Fail(PErr("FnMissingParams", name.s, tpos(toks, i + 2)), i + 2, stk)
      [] OTHER ->
         LET ps == IF peek(toks, i + 3).t = "RightParen"
                   THEN [err |-> NoErr, node |-> Unit(0), i |-> i + 4, stack |-> stk,
                         params |-> <<>>]
                   ELSE fn_params_loop(toks, i + 3, stk, <<>>) IN
         IF ~IsOk(ps) THEN ps
         ELSE LET dup == first_duplicate([n \in 1..Len(ps.params) |-> ps.params[n].name]) IN
              IF dup # 0
              THEN Fail(PErr2("FnDuplicatedParam", name.s, ps.params[dup].name,
                              ps.params[dup].pos), ps.i, ps.stack)
              ELSE IF peek(toks, ps.i).t # "LeftBrace"
              THEN Fail(PErr("FnMissingBody", name.s, tpos(toks, ps.i)), ps.i, ps.stack)
              ELSE LET body == descend("parse_block", <<toks, ps.i, ps.stack, FALSE, allow>>) IN
                   IF ~IsOk(body) THEN body
                   ELSE Ok(FnDef(name.s, access,
                                 [n \in 1..Len(ps.params) |-> ps.params[n].name],
                                 body.node, tpos(toks, i)),
                           body.i, body.stack)

\* the call of the parse function named f with the arguments a
descend(f, a) ==
    CASE f = "parse_expr" -> parse_expr(a[1], a[2], a[3], a[4])
      [] f = "parse_unary" -> parse_unary(a[1], a[2], a[3], a[4])
      [] f = "parse_primary" -> parse_primary(a[1], a[2], a[3], a[4])
      [] f = "primary_postfix" -> primary_postfix(a[1], a[2], a[3], a[4], a[5])
      [] f = "parse_paren_expr" -> parse_paren_expr(a[1], a[2], a[3], a[4], a[5])
      [] f = "parse_call_expr" -> parse_call_expr(a[1], a[2], a[3], a[4], a[5], a[6], a[7])
      [] f = "call_args_loop" -> call_args_loop(a[1], a[2], a[3], a[4], a[5], a[6], a[7], a[8])
      [] f = "parse_index_chain" -> parse_index_chain(a[1], a[2], a[3], a[4], a[5], a[6])
      [] f = "parse_array_literal" -> parse_array_literal(a[1], a[2], a[3], a[4], a[5])
      [] f = "array_items_loop" -> array_items_loop(a[1], a[2], a[3], a[4], a[5], a[6])
      [] f = "parse_map_literal" -> parse_map_literal(a[1], a[2], a[3], a[4], a[5])
      [] f = "map_items_loop" -> map_items_loop(a[1], a[2], a[3], a[4], a[5], a[6])
      [] f = "parse_binary_op" -> parse_binary_op(a[1], a[2], a[3], a[4], a[5], a[6])
      [] f = "parse_if" -> parse_if(a[1], a[2], a[3], a[4], a[5])
      [] f = "parse_block" -> parse_block(a[1], a[2], a[3], a[4], a[5])
      [] f = "block_loop" -> block_loop(a[1], a[2], a[3], a[4], a[5], a[6], a[7], a[8])
      [] f = "parse_stmt" -> parse_stmt(a[1], a[2], a[3], a[4], a[5], a[6])
      [] f = "parse_fn" -> parse_fn(a[1], a[2], a[3], a[4], a[5])

(***************************************************************************)
(* The scripts handed to parse, as token streams.  A script is a run of     *)
(* declarations followed by one statement under study.                      *)
(***************************************************************************)
Semi == <<T("SemiColon")>>
One == <<TInt(1)>>

\* sequences over a set of chunks, flattened, of at most n chunks
RECURSIVE Runs(_, _)
Runs(chunks, n) ==
    IF n = 0 THEN {<<>>}
    ELSE Runs(chunks, n - 1) \cup {r \o c : r \in Runs(chunks, n - 1), c \in chunks}

\* let x = 1;   const x = 1;   const y = 1;   import "m" as x;   { let x = 1; }
DeclChunks ==
    { <<T("Let"), TId("x"), T("Equals")>> \o One \o Semi,
      <<T("Const"), TId("x"), T("Equals")>> \o One \o Semi,
      <<T("Const"), TId("y"), T("Equals")>> \o One \o Semi,
      <<T("Import"), TStr("m"), T("As"), TId("x")>> \o Semi,
      <<T("LeftBrace"), T("Let"), TId("x"), T("Equals")>> \o One \o Semi \o <<T("RightBrace")>> }

\* the roots of assignment targets:  x   y   1   "s"   f()
TargetRoots ==
    { <<TId("x")>>, <<TId("y")>>, One, <<TStr("s")>>,
      <<TId("f"), T("LeftParen"), T("RightParen")>> }

\* the links of a chain:  [1]   .p   .f()
ChainLinks ==
    { <<T("LeftBracket")>> \o One \o <<T("RightBracket")>>,
      <<T("Period"), TId("p")>>,
      <<T("Period"), TId("f"), T("LeftParen"), T("RightParen")>> }

AssignOps == { <<T("Equals")>>, <<T("PlusAssign")>> }

\* target op 1;
AssignChunks ==
    { r \o c \o op \o One \o Semi :
        r \in TargetRoots, c \in Runs(ChainLinks, MaxChain), op \in AssignOps }

AssignScripts == { d \o a : d \in Runs(DeclChunks, MaxDecls), a \in AssignChunks }

\* initializers of `const y = ...;`
ConstInits ==
    { One,
      <<T("UnaryMinus")>> \o One,
      <<TFlt(1)>>,
      <<TStr("s")>>,
      <<TChr("c")>>,
      <<T("True")>>,
      <<T("LeftParen"), T("RightParen")>>,
      <<T("LeftParen")>> \o One \o <<T("RightParen")>>,
      <<T("LeftBracket"), T("RightBracket")>>,
      <<T("LeftBracket")>> \o One \o <<T("Comma"), TStr("s"), T("RightBracket")>>,
      <<T("LeftBracket")>> \o One \o <<T("Comma"), TId("x"), T("RightBracket")>>,
      <<T("LeftBracket"), T("LeftBracket")>> \o One \o <<T("RightBracket"), T("RightBracket")>>,
      <<T("LeftBracket"), T("LeftBracket"), TId("x"), T("RightBracket"), T("RightBracket")>>,
      <<T("MapStart"), TId("a"), T("Colon")>> \o One \o <<T("RightBrace")>>,
      <<T("MapStart"), TId("a"), T("Colon"), TId("x"), T("RightBrace")>>,
      <<T("MapStart"), TId("a"), T("Colon"), T("LeftBracket"), TId("x"),
        T("RightBracket"), T("RightBrace")>>,
      <<TStr("a"), T("In"), TStr("b")>>,
      <<TChr("c"), T("In"), TStr("b")>>,
      <<TId("x"), T("In"), TStr("b")>>,
      <<TStr("a"), T("In"), TId("x")>>,
      <<T("LeftBracket"), TStr("a"), T("In"), TStr("b"), T("RightBracket")>>,
      <<TId("x")>>,
      <<TId("f"), T("LeftParen"), T("RightParen")>>,
      One \o <<T("Plus")>> \o One,
      <<T("Bang"), T("True")>>,
      <<T("UnaryMinus"), TId("x")>>,
      <<TId("x"), T("LeftBracket")>> \o One \o <<T("RightBracket")>>,
      <<TStr("s"), T("LeftBracket")>> \o One \o <<T("RightBracket")>>,
      <<TId("x"), T("Period"), TId("p")>>,
      <<T("True"), T("And"), T("False")>> }

\* const y = init;   const y;   { const y = init; }  and a use of y after it
ConstChunks ==
    { <<T("Const"), TId("y"), T("Equals")>> \o e \o Semi : e \in ConstInits }
    \cup { <<T("LeftBrace"), T("Const"), TId("y"), T("Equals")>> \o e \o Semi
              \o <<T("RightBrace")>> : e \in ConstInits }
    \cup { <<T("Const"), TId("y")>> \o Semi,
           <<T("Const"), TId("y")>> \o Semi \o <<TId("y"), T("Equals")>> \o One \o Semi,
           <<T("Const"), TId("y"), T("Equals")>> \o One \o Semi
              \o <<T("Let"), TId("z"), T("Equals"), TId("y")>> \o Semi }

ConstScripts == { d \o c : d \in Runs(DeclChunks, 1), c \in ConstChunks }


\* the keys of map literals:  a   "a"   b   "b"
MapKeys == { TId("a"), TStr("a"), TId("b"), TStr("b") }

\* <<k1, ..., kn>> for n <= MaxEntries
RECURSIVE KeyRuns(_)
KeyRuns(n) ==
    IF n = 0 THEN {<<>>}
    ELSE KeyRuns(n - 1) \cup {Append(r, k) : r \in KeyRuns(n - 1), k \in MapKeys}

\* k1: 1, k2: 2, ..., kn: n
RECURSIVE MapEntries(_)
MapEntries(keys) ==
    IF keys = <<>> THEN <<>>
    ELSE LET n == Len(keys) IN
         MapEntries(SubSeq(keys, 1, n - 1))
            \o (IF n > 1 THEN <<T("Comma")>> ELSE <<>>)
            \o <<keys[n], T("Colon"), TInt(n)>>

\* let m = #{ k1: 1, ..., kn: n };
MapScripts ==
    { <<T("Let"), TId("m"), T("Equals"), T("MapStart")>> \o MapEntries(keys)
        \o <<T("RightBrace")>> \o Semi : keys \in KeyRuns(MaxEntries) }

BreakOrContinue == { <<T("Break")>> \o Semi, <<T("Continue")>> \o Semi }

WhileX == <<T("While"), TId("x"), T("LeftBrace")>>
LoopHead == <<T("Loop"), T("LeftBrace")>>
ForYInX == <<T("For"), TId("y"), T("In"), TId("x"), T("LeftBrace")>>
IfX == <<T("If"), TId("x"), T("LeftBrace")>>
FnF == <<T("Fn"), TId("f"), T("LeftParen"), TId("x"), T("RightParen"), T("LeftBrace")>>
Close == <<T("RightBrace")>>

\* a break or continue at every kind of place: bare, in blocks, in the
\* branches of an if, in the three loops, after a loop, in function bodies,
\* and in a block in expression position inside a loop
LoopChunks ==
    UNION { { b,
              <<T("LeftBrace")>> \o b \o Close,
              IfX \o b \o Close,
              IfX \o Close \o <<T("Else"), T("LeftBrace")>> \o b \o Close,
              WhileX \o b \o Close,
              LoopHead \o b \o Close,
              ForYInX \o b \o Close,
              WhileX \o IfX \o b \o Close \o Close,
              WhileX \o <<T("LeftBrace")>> \o b \o Close \o Close,
              LoopHead \o IfX \o Close \o <<T("Else"), T("LeftBrace")>> \o b \o Close \o Close,
              WhileX \o Close \o b,
              LoopHead \o WhileX \o Close \o b \o Close,
              WhileX \o One \o Semi \o Close \o <<T("LeftBrace")>> \o b \o Close,
              FnF \o b \o Close,
              FnF \o IfX \o b \o Close \o Close,
              FnF \o WhileX \o b \o Close \o Close,
              FnF \o LoopHead \o Close \o b \o Close,
              <<T("Private")>> \o FnF \o ForYInX \o b \o Close \o Close,
              WhileX \o FnF \o b \o Close \o Close,
              WhileX \o <<T("Let"), TId("v"), T("Equals")>> \o IfX \o b \o Close
                 \o <<T("Else"), T("LeftBrace")>> \o One \o Close \o Semi \o Close,
              <<T("Private"), T("Let"), TId("v")>> \o Semi \o b
            } : b \in BreakOrContinue }

LoopScripts == { d \o c : d \in Runs(DeclChunks, 1), c \in LoopChunks }

\* assignments below the global level:  outer declaration, then a block, a
\* loop body, a for body over x or the body of fn f(x), holding an inner
\* declaration and an assignment to x or y
NestedHeads ==
    { <<T("LeftBrace")>>, WhileX,
      <<T("For"), TId("x"), T("In"), TId("y"), T("LeftBrace")>>, FnF }

NestedTargets ==
    { <<TId("x")>>, <<TId("y")>>,
      <<TId("x"), T("LeftBracket")>> \o One \o <<T("RightBracket")>>,
      <<TId("x"), T("Period"), TId("p")>> }

NestedScripts ==
    { d \o h \o e \o t \o op \o One \o Semi \o Close :
        d \in Runs(DeclChunks, 1), h \in NestedHeads, e \in Runs(DeclChunks, 1),
        t \in NestedTargets, op \in AssignOps }

Scripts ==
    AssignScripts \cup NestedScripts \cup ConstScripts \cup MapScripts \cup LoopScripts

(***************************************************************************)
(* Scripts that are one expression statement, given by a description of     *)
(* the expression.                                                         *)
(***************************************************************************)
\* sequences over a set, of length 1..n
RECURSIVE SeqsUpTo(_, _)
SeqsUpTo(S, n) ==
    IF n = 0 THEN {}
    ELSE {<<x>> : x \in S} \cup {Append(q, x) : q \in SeqsUpTo(S, n - 1), x \in S}

\* the flattening of a sequence of token sequences
RECURSIVE Flatten(_)
Flatten(chunks) == IF chunks = <<>> THEN <<>> ELSE Head(chunks) \o Flatten(Tail(chunks))

\* what stands between [ and ]:
\*   0   "a"   i   1.0   'c'   true   ()   x && y   x || y   "a" in "s"
\* and the negative integers   -1   -(1)
IdxKinds == {"int", "str", "var", "float", "char", "bool", "unit", "and", "or", "in"}
IdxToks(kind) ==
    CASE kind = "int" -> <<TInt(0)>>
      [] kind = "str" -> <<TStr("a")>>
      [] kind = "var" -> <<TId("i")>>
      [] kind = "float" -> <<TFlt(1)>>
      [] kind = "char" -> <<TChr("c")>>
      [] kind = "bool" -> <<T("True")>>
      [] kind = "unit" -> <<T("LeftParen"), T("RightParen")>>
      [] kind = "and" -> <<TId("x"), T("And"), TId("y")>>
      [] kind = "or" -> <<TId("x"), T("Or"), TId("y")>>
      [] kind = "in" -> <<TStr("a"), T("In"), TStr("s")>>
      [] kind = "neg" -> <<T("UnaryMinus"), TInt(1)>>
      [] kind = "negparen" -> <<T("UnaryMinus"), T("LeftParen"), TInt(1), T("RightParen")>>

\* what is indexed:   v   [1]   "s"   #{a: 1}   f()
RootKinds == {"variable", "array", "string", "map", "call"}
RootToks(kind) ==
    CASE kind = "variable" -> <<TId("v")>>
      [] kind = "array" -> <<T("LeftBracket")>> \o One \o <<T("RightBracket")>>
      [] kind = "string" -> <<TStr("s")>>
      [] kind = "map" -> <<T("MapStart"), TId("a"), T("Colon")>> \o One \o <<T("RightBrace")>>
      [] kind = "call" -> <<TId("f"), T("LeftParen"), T("RightParen")>>

\* root[idx1]...[idxn];
IndexCase(root, idx) == [root |-> root, idx |-> idx]
IndexCases == { IndexCase(r, q) : r \in RootKinds, q \in SeqsUpTo(IdxKinds, MaxLevels) }
IndexScript(d) ==
    RootToks(d.root)
       \o Flatten([j \in 1..Len(d.idx) |->
                     <<T("LeftBracket")>> \o IdxToks(d.idx[j]) \o <<T("RightBracket")>>])
       \o Semi
IndexScripts == { IndexScript(d) : d \in IndexCases }

\* chains with a negative integer at some level
NegKinds == {"neg", "negparen"}
NegIndexCases ==
    { IndexCase(r, q) : r \in RootKinds,
                        q \in {q \in SeqsUpTo({"int", "str", "var"} \cup NegKinds, MaxLevels) :
                                 \E j \in 1..Len(q) : q[j] \in NegKinds} }
NegIndexScripts == { IndexScript(d) : d \in NegIndexCases }

\* the integer literals negated, as the lexer hands them over
NegLiterals == {0, 1, MAX_INT, 0 - 1, MIN_INT + 1, MIN_INT}

\* -...-n;  and  -...-(n);  with k minus signs
NegationCase(k, n, paren) == [k |-> k, n |-> n, paren |-> paren]
NegationCases ==
    { NegationCase(k, n, paren) : k \in 1..MaxMinus, n \in NegLiterals, paren \in BOOLEAN }
NegationScript(d) ==
    [j \in 1..d.k |-> T("UnaryMinus")]
       \o (IF d.paren THEN <<T("LeftParen"), TInt(d.n), T("RightParen")>> ELSE <<TInt(d.n)>>)
       \o Semi
NegationScripts == { NegationScript(d) : d \in NegationCases }

\* [private] fn f(p1, ..., pn) { }
\* sequences over a set, of length 0..n
SeqsFromZero(S, n) == {<<>>} \cup SeqsUpTo(S, n)
\* x1, x2, ..., xn
RECURSIVE CommaList(_)
CommaList(chunks) ==
    IF chunks = <<>> THEN <<>>
    ELSE IF Len(chunks) = 1 THEN chunks[1]
    ELSE chunks[1] \o <<T("Comma")>> \o CommaList(Tail(chunks))
ParamNames == {"a", "b", "c"}
FnCase(names, private) == [names |-> names, private |-> private]
FnCases == { FnCase(q, pr) : q \in SeqsFromZero(ParamNames, MaxNames), pr \in BOOLEAN }
FnScript(d) ==
    (IF d.private THEN <<T("Private")>> ELSE <<>>)
       \o <<T("Fn"), TId("f"), T("LeftParen")>>
       \o CommaList([j \in 1..Len(d.names) |-> <<TId(d.names[j])>>])
       \o <<T("RightParen"), T("LeftBrace"), T("RightBrace")>>
FnScripts == { FnScript(d) : d \in FnCases }

\* export x1 [as r1], ..., xn [as rn];
Exported(name, ren) == [name |-> name, ren |-> ren]
ExportedNames == { Exported(n, r) : n \in {"a", "b"}, r \in {"", "a"} }
ExportCases == SeqsUpTo(ExportedNames, MaxNames)
ExportScript(d) ==
    <<T("Export")>>
       \o CommaList([j \in 1..Len(d) |->
                       IF d[j].ren = "" THEN <<TId(d[j].name)>>
                       ELSE <<TId(d[j].name), T("As"), TId(d[j].ren)>>])
       \o Semi
ExportScripts == { ExportScript(d) : d \in ExportCases }

\* private export x;
PrivateStmtScripts == { <<T("Private")>> \o ExportScript(d) : d \in SeqsUpTo(ExportedNames, 1) }

\* root.e1.e2...: a dot chain whose elements are properties and method calls
LinkKinds == {"prop", "call0", "call1", "callidx", "propidx"}
LinkToks(kind) ==
    CASE kind = "prop" -> <<TId("b")>>
      [] kind = "call0" -> <<TId("f"), T("LeftParen"), T("RightParen")>>
      [] kind = "call1" -> <<TId("f"), T("LeftParen")>> \o One \o <<T("RightParen")>>
      [] kind = "callidx" ->
            <<TId("f"), T("LeftParen"), T("RightParen"), T("LeftBracket"), TInt(0),
              T("RightBracket")>>
      [] kind = "propidx" -> <<TId("b"), T("LeftBracket"), TInt(0), T("RightBracket")>>
ChainRoots == {"variable", "call"}
ChainCase(root, links) == [root |-> root, links |-> links]
ChainCases == { ChainCase(r, q) : r \in ChainRoots, q \in SeqsUpTo(LinkKinds, MaxChain) }
ChainScript(d) ==
    RootToks(d.root)
       \o Flatten([j \in 1..Len(d.links) |-> <<T("Period")>> \o LinkToks(d.links[j])])
       \o Semi
ChainScripts == { ChainScript(d) : d \in ChainCases }

\* the other expressions that make a FnCall: calls, operators, op-assignment
CallScripts ==
    { <<TId("f"), T("LeftParen"), T("RightParen")>> \o Semi,
      <<TId("f"), T("LeftParen"), TId("a"), T("Comma"), TInt(1), T("RightParen")>> \o Semi,
      <<TId("m"), T("DoubleColon"), TId("f"), T("LeftParen"), TId("a"), T("RightParen")>>
         \o Semi,
      <<TId("f"), T("LeftParen"), TId("g"), T("LeftParen"), TInt(1), T("RightParen"),
        T("RightParen")>> \o Semi,
      <<TId("a"), T("Plus"), TId("b")>> \o Semi,
      <<TId("a"), T("EqualsTo"), TId("b"), T("Multiply"), TInt(2)>> \o Semi,
      <<T("UnaryMinus"), TId("a")>> \o Semi,
      <<T("Bang"), TId("a")>> \o Semi,
      <<TId("a"), T("Plus"), T("UnaryMinus"), TId("b")>> \o Semi,
      <<T("UnaryMinus"), TId("a"), T("Period"), TId("f"), T("LeftParen"), T("RightParen")>>
         \o Semi,
      <<TId("a"), T("PlusAssign"), TInt(1)>> \o Semi,
      <<TId("a"), T("PlusAssign"), TId("f"), T("LeftParen"), TInt(1), T("RightParen")>>
         \o Semi }

\* declarations, then a statement that reads variables
DeclKinds == {"let a", "const a", "let b", "import a", "import m"}
DeclToks(kind) ==
    CASE kind = "let a" -> <<T("Let"), TId("a"), T("Equals")>> \o One \o Semi
      [] kind = "const a" -> <<T("Const"), TId("a"), T("Equals")>> \o One \o Semi
      [] kind = "let b" -> <<T("Let"), TId("b"), T("Equals")>> \o One \o Semi
      [] kind = "import a" -> <<T("Import"), TStr("m"), T("As"), TId("a")>> \o Semi
      [] kind = "import m" -> <<T("Import"), TStr("m"), T("As"), TId("m")>> \o Semi
UseKinds == {"a", "b", "a::b", "m::a", "a + b", "{ let b; a }"}
UseToks(kind) ==
    CASE kind = "a" -> <<TId("a")>> \o Semi
      [] kind = "b" -> <<TId("b")>> \o Semi
      [] kind = "a::b" -> <<TId("a"), T("DoubleColon"), TId("b")>> \o Semi
      [] kind = "m::a" -> <<TId("m"), T("DoubleColon"), TId("a")>> \o Semi
      [] kind = "a + b" -> <<TId("a"), T("Plus"), TId("b")>> \o Semi
      [] kind = "{ let b; a }" ->
            <<T("LeftBrace"), T("Let"), TId("b"), T("Equals")>> \o One \o Semi
               \o <<TId("a")>> \o Semi \o <<T("RightBrace")>>
ScopeCase(decls, use) == [decls |-> decls, use |-> use]
ScopeCases == { ScopeCase(q, u) : q \in SeqsFromZero(DeclKinds, MaxDecls), u \in UseKinds }
ScopeScript(d) == Flatten([j \in 1..Len(d.decls) |-> DeclToks(d.decls[j])]) \o UseToks(d.use)
ScopeScripts == { ScopeScript(d) : d \in ScopeCases }

\* [let a = 1;] a binding form; a;
ReadA == <<TId("a")>> \o Semi
LetA == <<T("Let"), TId("a"), T("Equals")>> \o One \o Semi
FormKinds == {"let a = a", "let a", "const a", "import a as a", "for a in a", "block",
              "nested", "if", "while", "fn"}
FormToks(kind) ==
    CASE kind = "let a = a" -> <<T("Let"), TId("a"), T("Equals")>> \o ReadA
      [] kind = "let a" -> <<T("Let"), TId("a")>> \o Semi
      [] kind = "const a" -> <<T("Const"), TId("a"), T("Equals")>> \o One \o Semi
      [] kind = "import a as a" -> <<T("Import"), TId("a"), T("As"), TId("a")>> \o Semi
      [] kind = "for a in a" ->
            <<T("For"), TId("a"), T("In"), TId("a"), T("LeftBrace")>> \o ReadA
               \o <<T("RightBrace")>>
      [] kind = "block" -> <<T("LeftBrace")>> \o LetA \o ReadA \o <<T("RightBrace")>>
      [] kind = "nested" ->
            <<T("LeftBrace"), T("Let"), TId("b"), T("Equals")>> \o One \o Semi
               \o <<T("LeftBrace")>> \o LetA \o <<T("RightBrace")>>
               \o ReadA \o <<TId("b")>> \o Semi \o <<T("RightBrace")>>
      [] kind = "if" -> <<T("If"), T("True"), T("LeftBrace")>> \o LetA \o <<T("RightBrace")>>
      [] kind = "while" ->
            <<T("While"), T("True"), T("LeftBrace")>> \o LetA \o ReadA \o <<T("RightBrace")>>
      [] kind = "fn" ->
            <<T("Fn"), TId("f"), T("LeftParen"), TId("b"), T("RightParen"), T("LeftBrace")>>
               \o ReadA \o <<TId("b")>> \o Semi \o <<T("RightBrace")>>
FormCase(bound, form) == [bound |-> bound, form |-> form]
FormCases == { FormCase(b, f) : b \in BOOLEAN, f \in FormKinds }
FormScript(d) == (IF d.bound THEN LetA ELSE <<>>) \o FormToks(d.form) \o ReadA
FormScripts == { FormScript(d) : d \in FormCases }

\* a[i];   a[i].c;   a.b[i];   a[i][i].c;   a.b;   a[0].c;
IndexedBy == <<T("LeftBracket"), TId("i"), T("RightBracket")>>
PropertyScripts ==
    { <<TId("a")>> \o IndexedBy \o Semi,
      <<TId("a")>> \o IndexedBy \o <<T("Period"), TId("c")>> \o Semi,
      <<TId("a"), T("Period"), TId("b")>> \o IndexedBy \o Semi,
      <<TId("a")>> \o IndexedBy \o IndexedBy \o <<T("Period"), TId("c")>> \o Semi,
      <<TId("a"), T("Period"), TId("b")>> \o Semi,
      <<TId("a"), T("LeftBracket"), TInt(0), T("RightBracket"), T("Period"), TId("c")>>
         \o Semi }

\* x1 op1 x2 op2 x3 ...;
OpKinds == {"Or", "EqualsTo", "In", "Plus", "Minus", "Multiply", "PowerOf", "Period"}
OperandNames == <<"x1", "x2", "x3", "x4", "x5", "x6">>
OpCases == SeqsUpTo(OpKinds, MaxOps)
OpScript(ops) ==
    <<TId(OperandNames[1])>>
       \o Flatten([j \in 1..Len(ops) |-> <<T(ops[j]), TId(OperandNames[j + 1])>>])
       \o Semi
OpScripts == { OpScript(ops) : ops \in OpCases }
\* the operators of such a script: every second token
OpsOf(toks) == [j \in 1..((Len(toks) - 2) \div 2) |-> toks[2 * j].t]

\* prefix a[postfix] op b;   with the prefixes - + ! and the postfixes (1) [0] ::c
PrefixKinds == {"UnaryMinus", "UnaryPlus", "Bang"}
PostfixKinds == {"none", "call", "index", "module"}
PostfixToks(kind) ==
    CASE kind = "none" -> <<>>
      [] kind = "call" -> <<T("LeftParen")>> \o One \o <<T("RightParen")>>
      [] kind = "index" -> <<T("LeftBracket"), TInt(0), T("RightBracket")>>
      [] kind = "module" -> <<T("DoubleColon"), TId("c")>>
BinaryKinds == FnOpTokens \cup {"Period", "And", "Or", "In"}
UnaryCase(prefix, postfix, op) == [prefix |-> prefix, postfix |-> postfix, op |-> op]
\* +a[0].b and +a::c.b are left out: without a node for the prefix the
\* operand itself is what make_dot_expr is given
UnaryCases ==
    { UnaryCase(p, q, op) : p \in PrefixKinds, q \in PostfixKinds, op \in BinaryKinds }
       \ { UnaryCase("UnaryPlus", q, "Period") : q \in {"index", "module"} }
UnaryScript(d) ==
    <<T(d.prefix), TId("a")>> \o PostfixToks(d.postfix) \o <<T(d.op), TId("b")>> \o Semi
UnaryScripts == { UnaryScript(d) : d \in UnaryCases }

\* a op= b;   for every op-assignment, and   a = b;
OpAssignScript(op) == <<TId("a"), T(op), TId("b")>> \o Semi
OpAssignScripts == { OpAssignScript(op) : op \in AssignTokens }

\* function definitions one after the other, the j-th with the body { j; }
Defined(name, arity, access) == [name |-> name, arity |-> arity, access |-> access]
DefinedKinds ==
    { Defined("f", 0, "Public"), Defined("f", 0, "Private"), Defined("f", 1, "Public"),
      Defined("g", 0, "Public") }
LibraryCases == SeqsUpTo(DefinedKinds, MaxFns)
DefinedToks(def, j) ==
    (IF def.access = "Private" THEN <<T("Private")>> ELSE <<>>)
       \o <<T("Fn"), TId(def.name), T("LeftParen")>>
       \o CommaList([m \in 1..def.arity |-> <<TId("p")>>])
       \o <<T("RightParen"), T("LeftBrace"), TInt(j)>> \o Semi \o <<T("RightBrace")>>
LibraryScript(d) == Flatten([j \in 1..Len(d) |-> DefinedToks(d[j], j)])
LibraryScripts == { LibraryScript(d) : d \in LibraryCases }

\* array and object map literals whose token stream ends before the closing
\* delimiter: `[`, `[1,`, `[1`, `#{`, `#{a:1,`, `#{a:1`, bare and as the value
\* of a `let`
TruncatedLiterals ==
    { <<T("LeftBracket")>>,
      <<T("LeftBracket"), TInt(1), T("Comma")>>,
      <<T("LeftBracket"), TInt(1)>>,
      <<T("MapStart")>>,
      <<T("MapStart"), TId("a"), T("Colon"), TInt(1), T("Comma")>>,
      <<T("MapStart"), TId("a"), T("Colon"), TInt(1)>> }

\* the closing delimiter of a literal
ClosingOf(lit) == IF lit[1].t = "LeftBracket" THEN "RightBracket" ELSE "RightBrace"

LetX == <<T("Let"), TId("x"), T("Equals")>>

TruncatedScripts ==
    TruncatedLiterals \cup { LetX \o lit : lit \in TruncatedLiterals }

\* the same literals closed
ClosedScripts ==
    { lit \o <<T(ClosingOf(lit))>> \o Semi : lit \in TruncatedLiterals }

LiteralScripts == TruncatedScripts \cup ClosedScripts

\* a break or continue directly in the body of a while, loop, for or fn, or
\* at the global level, or there inside a block, a branch of an `if`
\* statement, or an `if` or block that is the value of a `let`
BodyKinds == {"none", "while", "loop", "for", "fn"}
LoopKinds == {"while", "loop", "for"}
BreakPlaces == {"direct", "block", "if", "else", "else if", "let if", "let block"}
ExprPlaces == {"let if", "let block"}
BodyHead(kind) ==
    CASE kind = "while" -> WhileX
      [] kind = "loop" -> LoopHead
      [] kind = "for" -> ForYInX
      [] kind = "fn" -> FnF
      [] OTHER -> <<>>
LetV == <<T("Let"), TId("v"), T("Equals")>>
Placed(place, word) ==
    CASE place = "direct" -> word
      [] place = "block" -> <<T("LeftBrace")>> \o word \o Close
      [] place = "if" -> IfX \o word \o Close
      [] place = "else" -> IfX \o Close \o <<T("Else"), T("LeftBrace")>> \o word \o Close
      [] place = "else if" -> IfX \o Close \o <<T("Else")>> \o IfX \o word \o Close
      [] place = "let if" ->
            LetV \o IfX \o word \o Close \o <<T("Else"), T("LeftBrace")>> \o One
               \o Close \o Semi
      [] OTHER -> LetV \o <<T("LeftBrace")>> \o word \o Close \o Semi
BreakCase(body, place, word) == [body |-> body, place |-> place, word |-> word]
BreakCases ==
    { BreakCase(b, p, w) : b \in BodyKinds, p \in BreakPlaces, w \in BreakOrContinue }
BreakScript(d) ==
    BodyHead(d.body) \o Placed(d.place, d.word)
       \o (IF d.body = "none" THEN <<>> ELSE Close)
BreakScripts == { BreakScript(d) : d \in BreakCases }

\* scripts that keep every loop of the parser turning: empty statements,
\* blocks left open at the end of the script, self-terminating statements
\* followed by `;`, and lists and operator chains cut short
OpenBrace == <<T("LeftBrace")>>
ReadX == <<TId("x")>>
LoopingScripts ==
    { Semi,                                                    \* ;
      Semi \o Semi,                                            \* ;;
      ReadX \o Semi \o Semi \o ReadX,                          \* x;; x
      OpenBrace \o Close \o Semi,                              \* {};
      OpenBrace \o Close \o Semi \o Semi \o OpenBrace \o Close, \* {};; {}
      OpenBrace \o Semi \o Close,                              \* { ; }
      OpenBrace \o Semi \o Semi \o OpenBrace \o Close \o Semi \o ReadX \o Close \o Semi,
                                                               \* { ;; {}; x };
      IfX \o Close \o Semi \o WhileX \o Close \o Semi,         \* if x {}; while x {};
      LoopHead \o OpenBrace \o Close \o Semi \o OpenBrace \o Close \o Close,
                                                               \* loop { {}; {} }
      OpenBrace,                                               \* {
      OpenBrace \o ReadX,                                      \* { x
      OpenBrace \o ReadX \o Semi,                              \* { x;
      OpenBrace \o Semi,                                       \* { ;
      OpenBrace \o OpenBrace \o Close,                         \* { {}
      OpenBrace \o OpenBrace \o Close \o Semi,                 \* { {};
      WhileX \o IfX \o Close,                                  \* while x { if x {}
      FnF \o OpenBrace \o Close \o Semi,                       \* fn f(x) { {};
      <<TId("f"), T("LeftParen")>>,                            \* f(
      <<TId("f"), T("LeftParen"), TId("x"), T("Comma")>>,      \* f(x,
      <<TId("f"), T("LeftParen"), TId("x"), T("Comma"), TId("x")>>,
                                                               \* f(x, x
      <<TId("f"), T("LeftParen"), TId("x"), T("Comma"), TId("x"), T("Comma"),
        TId("x"), T("RightParen")>> \o Semi,                   \* f(x, x, x);
      <<T("LeftBracket"), TId("x"), T("Comma"), TId("x"), T("Comma")>>,
                                                               \* [x, x,
      <<T("MapStart"), TId("a"), T("Colon"), TId("x"), T("Comma"), TId("b")>>,
                                                               \* #{a: x, b
      <<T("Export"), TId("x"), T("Comma")>>,                   \* export x,
      <<T("Export"), TId("x"), T("Comma"), TId("x"), T("As")>>, \* export x, x as
      <<T("Fn"), TId("f"), T("LeftParen")>>,                   \* fn f(
      <<T("Fn"), TId("f"), T("LeftParen"), TId("x"), T("Comma")>>,
                                                               \* fn f(x,
      <<TId("x"), T("Plus"), TId("x"), T("Multiply")>>,        \* x + x *
      <<TId("x"), T("Plus"), TId("x"), T("Multiply"), TId("x"), T("Minus"), TId("x"),
        T("Plus")>>,                                           \* x + x * x - x +
      <<TId("x"), T("Plus"), TId("x"), T("Multiply"), TId("x"), T("Minus"), TId("x")>>
         \o Semi \o Semi }                                     \* x + x * x - x;;

\* scripts of one statement: an expression as a statement, as the value of
\* a `const` and as the initial value of a `let`, and statements of every kind
NodeInits ==
    ConstInits \cup
    { <<T("False")>>,
      <<T("UnaryMinus"), TFlt(1)>>,
      <<T("LeftBracket"), T("MapStart"), TId("a"), T("Colon")>> \o One
         \o <<T("RightBrace"), T("RightBracket")>>,
      <<T("MapStart"), TId("a"), T("Colon"), TStr("a"), T("In"), TStr("b"), T("RightBrace")>>,
      <<T("MapStart"), TId("a"), T("Colon"), T("LeftBracket")>> \o One
         \o <<T("RightBracket"), T("Comma"), TId("b"), T("Colon"), T("True"), T("RightBrace")>> }

CallF == <<TId("f"), T("LeftParen"), T("RightParen")>>
IfF == <<T("If")>> \o CallF \o OpenBrace
ElseBrace == <<T("Else"), T("LeftBrace")>>
StmtScripts ==
    { Semi,                                                    \* ;
      IfX \o Close,                                            \* if x {}
      IfF \o Close,                                            \* if f() {}
      IfX \o Close \o ElseBrace \o Close,                      \* if x {} else {}
      IfF \o Close \o ElseBrace \o Close,                      \* if f() {} else {}
      IfX \o CallF \o Semi \o Close,                           \* if x { f(); }
      IfX \o Close \o ElseBrace \o CallF \o Semi \o Close,     \* if x {} else { f(); }
      IfX \o IfF \o Close \o Close,                            \* if x { if f() {} }
      IfX \o Close \o <<T("Else")>> \o IfF \o Close,           \* if x {} else if f() {}
      WhileX \o Close,                                         \* while x {}
      <<T("While")>> \o CallF \o OpenBrace \o Close,           \* while f() {}
      WhileX \o ReadX \o <<T("Equals")>> \o One \o Semi \o Close, \* while x { x = 1; }
      WhileX \o <<T("Break")>> \o Semi \o Close,               \* while x { break; }
      LoopHead \o Close,                                       \* loop {}
      LoopHead \o <<T("Continue")>> \o Semi \o Close,          \* loop { continue; }
      LoopHead \o IfF \o Close \o Close,                       \* loop { if f() {} }
      ForYInX \o Close,                                        \* for y in x {}
      <<T("For"), TId("y"), T("In")>> \o CallF \o OpenBrace \o Close, \* for y in f() {}
      ForYInX \o IfF \o Close \o Close,                        \* for y in x { if f() {} }
      OpenBrace \o Close,                                      \* {}
      OpenBrace \o ReadX \o Semi \o One \o Semi \o Close,      \* { x; 1; }
      OpenBrace \o <<T("Let"), TId("a")>> \o Semi \o Close,     \* { let a; }
      OpenBrace \o IfF \o Close \o Close,                      \* { if f() {} }
      <<T("Let"), TId("a")>> \o Semi,                          \* let a;
      <<T("Return")>> \o Semi,                                 \* return;
      <<T("Throw")>> \o One \o Semi,                           \* throw 1;
      <<T("Import"), TStr("m"), T("As"), TId("m")>> \o Semi,   \* import "m" as m;
      <<T("Export"), TId("x")>> \o Semi,                       \* export x;
      ReadX \o <<T("Equals")>> \o One \o Semi,                 \* x = 1;
      <<T("LeftBracket")>> \o ReadX \o <<T("Comma")>> \o IfF \o Close
         \o <<T("RightBracket")>> \o Semi,                     \* [x, if f() {}];
      ReadX \o <<T("Or")>> \o IfF \o Close \o Semi }           \* x || if f() {};

NodeScripts ==
    { e \o Semi : e \in NodeInits }
       \cup { <<T("Const"), TId("y"), T("Equals")>> \o e \o Semi : e \in NodeInits }
       \cup { <<T("Let"), TId("y"), T("Equals")>> \o e \o Semi : e \in NodeInits }
       \cup StmtScripts

ExprScripts ==
    IndexScripts \cup NegIndexScripts \cup NegationScripts \cup FnScripts
       \cup ExportScripts \cup PrivateStmtScripts \cup ChainScripts \cup CallScripts
       \cup ScopeScripts \cup FormScripts \cup PropertyScripts \cup OpScripts
       \cup UnaryScripts \cup OpAssignScripts \cup LibraryScripts
       \cup LiteralScripts \cup BreakScripts \cup LoopingScripts

(***************************************************************************)
(* parse and parse_global_level as a state machine: one action per turn of *)
(* the while loop of parse_global_level.                                   *)
(***************************************************************************)
\* an insertion that keeps the entry already under the hash
fn_insert_new(fns, hash, func) ==
    [h \in (DOMAIN fns) \cup {hash} |-> IF h \in DOMAIN fns THEN fns[h] ELSE func]

\* HashMap::insert on `functions`, a function from hashes to FnDef
fn_insert(fns, hash, func) ==
    [h \in (DOMAIN fns) \cup {hash} |-> IF h = hash THEN func ELSE fns[h]]

\* the FnDef hash of parse_global_level: no qualifiers, the name, one placeholder per parameter
fn_def_hash(func) == calc_fn_hash(<<>>, func.name, Len(func.params))

\* the end of a turn that parsed a function definition: it is inserted under
\* its hash and the turn ends with `continue`
fn_turn(func) ==
    IF IsOk(func)
    THEN /\ functions' = fn_insert(functions, fn_def_hash(func.node), func.node)
         /\ ipos' = func.i
         /\ UNCHANGED <<result, perr>>
    ELSE /\ result' = "err"
         /\ perr' = func.err
         /\ ipos' = func.i
         /\ UNCHANGED functions

\* a function definition, optionally private
ParseFnDef ==
    /\ result = "parsing"
    /\ ~is_eof(peek(input, ipos))
    /\ LET private == peek(input, ipos).t = "Private"
           j == IF private THEN ipos + 1 ELSE ipos IN
       /\ peek(input, j).t = "Fn"
       /\ fn_turn(descend("parse_fn",
                          <<input, j, <<>>, IF private THEN "Private" ELSE "Public", TRUE>>))
    /\ spos' = ipos /\ sstack' = stack
    /\ UNCHANGED <<input, stack, statements, mergeVars, callVars, buildVars, timeVars, nodeVars>>

\* `private` not followed by `fn`
PrivateNotFn ==
    /\ result = "parsing"
    /\ peek(input, ipos).t = "Private"
    /\ peek(input, ipos + 1).t # "Fn"
    /\ result' = "err"
    /\ perr' = PErr("MissingToken", "fn", tpos(input, ipos + 1))
    /\ ipos' = ipos + 1
    /\ spos' = ipos /\ sstack' = stack
    /\ UNCHANGED <<input, stack, statements, functions, mergeVars, callVars, buildVars, timeVars, nodeVars>>

\* the end of a turn that parsed an actual statement: the statement is pushed
\* and the separator that follows it is consumed or reported missing
stmt_turn(stmt) ==
    IF ~IsOk(stmt)
    THEN /\ result' = "err"
         /\ perr' = stmt.err
         /\ ipos' = stmt.i
         /\ UNCHANGED <<stack, statements>>
    ELSE /\ statements' = Append(statements, stmt.node)
         /\ stack' = stmt.stack
         /\ CASE peek(input, stmt.i).t = "EOF" ->
                   result' = "ok" /\ perr' = perr /\ ipos' = stmt.i
              [] peek(input, stmt.i).t = "SemiColon" /\ ~is_self_terminated(stmt.node) ->
                   result' = result /\ perr' = perr /\ ipos' = stmt.i + 1
              [] peek(input, stmt.i).t # "EOF" /\ is_self_terminated(stmt.node) ->
                   result' = result /\ perr' = perr /\ ipos' = stmt.i
              [] peek(input, stmt.i).t = "LexError" /\ ~is_self_terminated(stmt.node) ->
                   result' = "err" /\ ipos' = stmt.i
                   /\ perr' = PErr("BadInput", peek(input, stmt.i).s, tpos(input, stmt.i))
              [] OTHER ->
                   result' = "err" /\ ipos' = stmt.i
                   /\ perr' = PErr("MissingToken", ";", tpos(input, stmt.i))

\* an actual statement
ParseGlobalStmt ==
    /\ result = "parsing"
    /\ peek(input, ipos).t \notin {"EOF", "Private", "Fn"}
    /\ stmt_turn(descend("parse_stmt", <<input, ipos, stack, FALSE, TRUE, TRUE>>))
    /\ spos' = ipos /\ sstack' = stack
    /\ UNCHANGED <<input, functions, mergeVars, callVars, buildVars, timeVars, nodeVars>>

\* the input is at EOF at the top of the loop: Ok((statements, functions))
ParseEnd ==
    /\ result = "parsing"
    /\ is_eof(peek(input, ipos))
    /\ result' = "ok"
    /\ UNCHANGED <<input, ipos, stack, statements, functions, perr, spos, sstack,
                   mergeVars, callVars, buildVars, timeVars, nodeVars>>

(***************************************************************************)
(* AST::merge.  An AST is its statements and its function library; the      *)
(* library maps the hash of (name, number of parameters) to the FnDef.     *)
(***************************************************************************)
\* AST::new
AST_new(stmts, fn_lib) == [statements |-> stmts, functions |-> fn_lib]

\* FunctionsLib::merge: the entries of both, those of `other` replacing the
\* entries of `self` under the same hash
FunctionsLib_merge(self, other) ==
    [h \in (DOMAIN self) \cup (DOMAIN other) |->
        IF h \in DOMAIN other THEN other[h] ELSE self[h]]

\* AST::merge with the two libraries merged the other way round
AST_merge_receiver_wins(self, other) ==
    LET ast == CASE self.statements # <<>> /\ other.statements # <<>> ->
                       self.statements \o other.statements
                 [] self.statements # <<>> /\ other.statements = <<>> -> self.statements
                 [] self.statements = <<>> /\ other.statements # <<>> -> other.statements
                 [] OTHER -> <<>>
    IN AST_new(ast, FunctionsLib_merge(other.functions, self.functions))

\* AST::merge that takes the wrong list when the receiver has no statements
AST_merge_empty_receiver(self, other) ==
    LET ast == CASE self.statements # <<>> /\ other.statements # <<>> ->
                       self.statements \o other.statements
                 [] self.statements # <<>> /\ other.statements = <<>> -> self.statements
                 [] self.statements = <<>> /\ other.statements # <<>> -> self.statements
                 [] OTHER -> <<>>
    IN AST_new(ast, FunctionsLib_merge(self.functions, other.functions))

\* AST::merge
AST_merge(self, other) ==
    LET ast == CASE self.statements # <<>> /\ other.statements # <<>> ->
                       self.statements \o other.statements
                 [] self.statements # <<>> /\ other.statements = <<>> -> self.statements
                 [] self.statements = <<>> /\ other.statements # <<>> -> other.statements
                 [] OTHER -> <<>>
    IN AST_new(ast, FunctionsLib_merge(self.functions, other.functions))

\* impl Add for &AST
AST_add(self, rhs) == AST_merge(self, rhs)

\* Option<AST>
Some(ast) == [some |-> TRUE, ast |-> ast]
None == [some |-> FALSE, ast |-> AST_new(<<>>, <<>>)]
NoMerges == [ab |-> None, bc |-> None, ab_c |-> None, a_bc |-> None, sum |-> None]

\* the ASTs merged: the n-th statement of the AST in slot k is the
\* expression statement 10 * k + n, and its functions have bodies that
\* return k
SlotStatements(k, n) == [j \in 1..n |-> ExprStmt(IntegerConstant(10 * k + j, j))]
SlotFn(k, name, nparams) ==
    FnDef(name, "Public", [j \in 1..nparams |-> <<"x", "n", "m">>[k]],
          Block(<<ExprStmt(IntegerConstant(k, 1))>>, 1), 1)
\* foo of one parameter, foo of two, or both, or none
SlotLibs(k) ==
    { [h \in {fn_def_hash(f) : f \in fs} |-> CHOOSE f \in fs : fn_def_hash(f) = h] :
        fs \in SUBSET {SlotFn(k, "foo", 1), SlotFn(k, "foo", 2)} }
SlotASTs(k) ==
    { AST_new(SlotStatements(k, n), lib) : n \in 0..MaxMergeStmts, lib \in SlotLibs(k) }

\* ast1.merge(&ast2)
MergeAB ==
    /\ ~merged.ab.some
    /\ merged' = [merged EXCEPT !.ab = Some(AST_merge(ast1, ast2))]
    /\ UNCHANGED <<ast1, ast2, ast3, parseVars, callVars, buildVars, timeVars, nodeVars>>

\* ast2.merge(&ast3)
MergeBC ==
    /\ ~merged.bc.some
    /\ merged' = [merged EXCEPT !.bc = Some(AST_merge(ast2, ast3))]
    /\ UNCHANGED <<ast1, ast2, ast3, parseVars, callVars, buildVars, timeVars, nodeVars>>

\* ast1.merge(&ast2).merge(&ast3)
MergeAB_C ==
    /\ merged.ab.some /\ ~merged.ab_c.some
    /\ merged' = [merged EXCEPT !.ab_c = Some(AST_merge(merged.ab.ast, ast3))]
    /\ UNCHANGED <<ast1, ast2, ast3, parseVars, callVars, buildVars, timeVars, nodeVars>>

\* ast1.merge(&ast2.merge(&ast3))
MergeA_BC ==
    /\ merged.bc.some /\ ~merged.a_bc.some
    /\ merged' = [merged EXCEPT !.a_bc = Some(AST_merge(ast1, merged.bc.ast))]
    /\ UNCHANGED <<ast1, ast2, ast3, parseVars, callVars, buildVars, timeVars, nodeVars>>

\* &ast1 + &ast2
AddAB ==
    /\ ~merged.sum.some
    /\ merged' = [merged EXCEPT !.sum = Some(AST_add(ast1, ast2))]
    /\ UNCHANGED <<ast1, ast2, ast3, parseVars, callVars, buildVars, timeVars, nodeVars>>

(***************************************************************************)
(* The adapters of fn_register.rs.  A Dynamic is a type and a value; a      *)
(* registration is the name, the flavour (register_fn, register_dynamic_fn  *)
(* or register_result_fn), the declared parameter types, how the first      *)
(* parameter is taken (by value, & or &mut) and what the native function    *)
(* does when it is called.                                                 *)
(***************************************************************************)
Dynamic(type, val) == [type |-> type, val |-> val]

\* EvalAltResult, with the fields of ErrorFunctionArgsMismatch
EvalError(type, name, expected, got, pos) ==
    [type |-> type, name |-> name, expected |-> expected, got |-> got, pos |-> pos]
ErrorFunctionArgsMismatch(name, expected, got, pos) ==
    EvalError("ErrorFunctionArgsMismatch", name, expected, got, pos)
ErrorRuntime(msg, pos) == EvalError("ErrorRuntime", msg, 0, 0, pos)
NoError == EvalError("None", "", 0, 0, 0)

\* EvalAltResult::set_position
set_position(err, pos) == [err EXCEPT !.pos = pos]

\* what a call of the adapter leaves: Ok(val), Err(err) or a panic; whether
\* the native function ran; and the arguments as the caller finds them
Outcome(kind, val, err, invoked, args) ==
    [kind |-> kind, val |-> val, err |-> err, invoked |-> invoked, args |-> args]
NoValue == Dynamic("()", "")

\* count_args!
NUM_ARGS(r) == Len(r.params)

\* every element downcasts to the declared parameter type
downcast_all(r, args) == \A j \in 1..NUM_ARGS(r) : args[j].type = r.params[j]

\* def_register! handing every parameter on as it does the first
passing_as_first(r, j) == r.mark

\* how def_register! hands the j-th parameter to the native function: the
\* first by value (a clone), by & or by &mut (identity), as it is marked;
\* every other one as a clone
passing(r, j) == IF j = 1 THEN r.mark ELSE "Val"

\* the arguments after the native function ran: a function that writes
\* writes to what it holds by &mut; what it writes to a clone is lost
after_call(r, args) ==
    [j \in 1..Len(args) |->
        IF r.f.mutates /\ passing(r, j) = "Mut"
        THEN Dynamic(args[j].type, "written")
        ELSE args[j]]

\* the closure of register_fn with the two numbers of the error exchanged
register_fn_swapped(r, args, pos) ==
    IF Len(args) # NUM_ARGS(r)
    THEN Outcome("Err", NoValue,
                 ErrorFunctionArgsMismatch(r.name, Len(args), NUM_ARGS(r), pos), FALSE, args)
    ELSE IF ~downcast_all(r, args)
    THEN Outcome("Panic", NoValue, NoError, FALSE, args)
    ELSE Outcome("Ok", Dynamic(r.ret, r.f.val), NoError, TRUE, after_call(r, args))

\* the closure `fun` of register_fn
register_fn(r, args, pos) ==
    IF Len(args) # NUM_ARGS(r)
    THEN Outcome("Err", NoValue,
                 ErrorFunctionArgsMismatch(r.name, NUM_ARGS(r), Len(args), pos), FALSE, args)
    ELSE IF ~downcast_all(r, args)
    THEN Outcome("Panic", NoValue, NoError, FALSE, args)
    ELSE Outcome("Ok", Dynamic(r.ret, r.f.val), NoError, TRUE, after_call(r, args))

\* the closure `fun` of register_dynamic_fn
register_dynamic_fn(r, args, pos) ==
    IF Len(args) # NUM_ARGS(r)
    THEN Outcome("Err", NoValue,
                 ErrorFunctionArgsMismatch(r.name, NUM_ARGS(r), Len(args), pos), FALSE, args)
    ELSE IF ~downcast_all(r, args)
    THEN Outcome("Panic", NoValue, NoError, FALSE, args)
    ELSE Outcome("Ok", Dynamic(r.ret, r.f.val), NoError, TRUE, after_call(r, args))

\* the closure of register_result_fn that hands the error on as it came
register_result_fn_unstamped(r, args, pos) ==
    IF Len(args) # NUM_ARGS(r)
    THEN Outcome("Err", NoValue,
                 ErrorFunctionArgsMismatch(r.name, NUM_ARGS(r), Len(args), pos), FALSE, args)
    ELSE IF ~downcast_all(r, args)
    THEN Outcome("Panic", NoValue, NoError, FALSE, args)
    ELSE IF r.f.kind = "Ok"
    THEN Outcome("Ok", Dynamic(r.ret, r.f.val), NoError, TRUE, after_call(r, args))
    ELSE Outcome("Err", NoValue, r.f.err, TRUE, after_call(r, args))

\* the closure `fun` of register_result_fn
register_result_fn(r, args, pos) ==
    IF Len(args) # NUM_ARGS(r)
    THEN Outcome("Err", NoValue,
                 ErrorFunctionArgsMismatch(r.name, NUM_ARGS(r), Len(args), pos), FALSE, args)
    ELSE IF ~downcast_all(r, args)
    THEN Outcome("Panic", NoValue, NoError, FALSE, args)
    ELSE IF r.f.kind = "Ok"
    THEN Outcome("Ok", Dynamic(r.ret, r.f.val), NoError, TRUE, after_call(r, args))
    ELSE Outcome("Err", NoValue, set_position(r.f.err, pos), TRUE, after_call(r, args))

\* the types and values of the model
Types == {"i64", "String"}
ValueOf(type) == Dynamic(type, IF type = "i64" THEN "1" ELSE "a")

\* sequences of types of length n or less
RECURSIVE TypeLists(_)
TypeLists(n) ==
    IF n = 0 THEN {<<>>}
    ELSE TypeLists(n - 1) \cup {Append(l, t) : l \in TypeLists(n - 1), t \in Types}

\* what the native function does: it returns a value or fails with an error
\* that is at no position or at some position of its own; it may write to a
\* first parameter taken by &mut
Native(kind, val, err, mutates) == [kind |-> kind, val |-> val, err |-> err, mutates |-> mutates]
Returns == {Native("Ok", "r", NoError, m) : m \in BOOLEAN}
Fails == {Native("Err", "", ErrorRuntime("failed", p), m) : p \in {0, 9}, m \in BOOLEAN}

Registration(name, flavour, params, mark, ret, f) ==
    [name |-> name, flavour |-> flavour, params |-> params, mark |-> mark, ret |-> ret, f |-> f]
NotRegistered == Registration("", "none", <<>>, "Val", "()", Native("Ok", "", NoError, FALSE))
Call(args, pos) == [made |-> TRUE, args |-> args, pos |-> pos]
NoCall == [made |-> FALSE, args |-> <<>>, pos |-> 0]
NoOutcome == Outcome("None", NoValue, NoError, FALSE, <<>>)

\* the three ways def_register! takes the first parameter; a function of no
\* parameters has only the first, and only &mut lets the function write
Marks(params, f) ==
    IF params = <<>> THEN (IF f.mutates THEN {} ELSE {"Val"})
    ELSE IF f.mutates THEN {"Mut"} ELSE {"Val", "Ref", "Mut"}

\* engine.register_fn(name, f)
RegisterFn ==
    /\ reg.flavour = "none"
    /\ \E params \in TypeLists(MaxParams), f \in Returns :
          \E mark \in Marks(params, f) :
             reg' = Registration("add", "fn", params, mark, "i64", f)
    /\ UNCHANGED <<call, outcome, parseVars, mergeVars, buildVars, timeVars, nodeVars>>

\* engine.register_dynamic_fn(name, f)
RegisterDynamicFn ==
    /\ reg.flavour = "none"
    /\ \E params \in TypeLists(MaxParams), f \in Returns :
          \E mark \in Marks(params, f) :
             reg' = Registration("get", "dynamic", params, mark, "String", f)
    /\ UNCHANGED <<call, outcome, parseVars, mergeVars, buildVars, timeVars, nodeVars>>

\* engine.register_result_fn(name, f)
RegisterResultFn ==
    /\ reg.flavour = "none"
    /\ \E params \in TypeLists(MaxParams), f \in Returns \cup Fails :
          \E mark \in Marks(params, f) :
             reg' = Registration("div", "result", params, mark, "i64", f)
    /\ UNCHANGED <<call, outcome, parseVars, mergeVars, buildVars, timeVars, nodeVars>>

\* the engine calls the registered closure with an argument list and the
\* position of the call
CallAdapter ==
    /\ reg.flavour # "none"
    /\ ~call.made
    /\ \E types \in TypeLists(MaxArgs), pos \in {3, 7} :
          LET args == [j \in 1..Len(types) |-> ValueOf(types[j])] IN
          /\ call' = Call(args, pos)
          /\ outcome' = CASE reg.flavour = "fn" -> register_fn(reg, args, pos)
                          [] reg.flavour = "dynamic" -> register_dynamic_fn(reg, args, pos)
                          [] reg.flavour = "result" -> register_result_fn(reg, args, pos)
    /\ UNCHANGED <<reg, parseVars, mergeVars, buildVars, timeVars, nodeVars>>

(***************************************************************************)
(* BasicTimePackage: the subtraction of timestamps and `elapsed`.  An      *)
(* Instant is a number of whole seconds, of either sign, and a number of   *)
(* ticks below a second; a span of seconds is a u64 kept as hi * 2^31 + lo *)
(* with lo in 0..MAX_INT.                                                  *)
(***************************************************************************)
Instant(secs, ticks) == [secs |-> secs, ticks |-> ticks]
InstantSecs == {MIN_INT, MIN_INT + 1, 0 - 1, 0, 1, MAX_INT - 1, MAX_INT}
Instants == { Instant(s, t) : s \in InstantSecs, t \in 0..(TicksPerSecond - 1) }

\* a > b on Instants
Instant_gt(a, b) == a.secs > b.secs \/ (a.secs = b.secs /\ a.ticks > b.ticks)

U64(hi, lo) == [hi |-> hi, lo |-> lo]
\* a - b for integers a >= b, as a u64
Span(a, b) ==
    IF (a >= 0) = (b >= 0) THEN U64(0, a - b)
    ELSE LET t == 0 - (b + 1) IN      \* a >= 0 > b: a - b = a + t + 1
         IF a <= (MAX_INT - 1) - t THEN U64(0, a + t + 1)
         ELSE U64(1, a - (MAX_INT - t))

Duration(secs, ticks) == [secs |-> secs, ticks |-> ticks]
\* Instant - Instant, for a >= b
Instant_sub(a, b) ==
    IF a.ticks >= b.ticks
    THEN Duration(Span(a.secs, b.secs), a.ticks - b.ticks)
    ELSE Duration(Span(a.secs - 1, b.secs), a.ticks + TicksPerSecond - b.ticks)
\* Duration::as_secs
as_secs(d) == d.secs

\* seconds > (MAX_INT as u64), never true
exceeds_never(seconds) == FALSE

\* seconds > (MAX_INT as u64)
exceeds(seconds) == seconds.hi = 1
\* seconds as INT: the low bits, read as a signed integer
as_INT(seconds) == IF seconds.hi = 0 THEN seconds.lo ELSE MIN_INT + seconds.lo

\* what a function of the package returns
TimeInt(v) == [k |-> "Int", v |-> v, d |-> Duration(U64(0, 0), 0)]
TimeFloat(sign, d) == [k |-> "Float", v |-> sign, d |-> d]
ErrorArithmetic == [k |-> "ErrorArithmetic", v |-> 0, d |-> Duration(U64(0, 0), 0)]
TimePanic == [k |-> "Panic", v |-> 0, d |-> Duration(U64(0, 0), 0)]
NoTime == [k |-> "none", v |-> 0, d |-> Duration(U64(0, 0), 0)]

\* -(x): a negation that overflows wraps or panics, as the build checks overflow or not
neg_INT(x) == IF x = MIN_INT THEN {TimeInt(MIN_INT), TimePanic} ELSE {TimeInt(0 - x)}

\* the closure registered as "-": the results it can return
timestamp_sub(a, b) ==
    IF Instant_gt(b, a)
    THEN IF ~no_float THEN {TimeFloat(0 - 1, Instant_sub(b, a))}
         ELSE LET seconds == as_secs(Instant_sub(b, a)) IN
              IF ~unchecked /\ exceeds(seconds) THEN {ErrorArithmetic}
              ELSE neg_INT(as_INT(seconds))
    ELSE IF ~no_float THEN {TimeFloat(1, Instant_sub(a, b))}
         ELSE LET seconds == as_secs(Instant_sub(a, b)) IN
              IF ~unchecked /\ exceeds(seconds) THEN {ErrorArithmetic}
              ELSE {TimeInt(as_INT(seconds))}

\* the closure registered as "elapsed", `now` being the instant of the call
timestamp_elapsed(timestamp, now) ==
    IF ~no_float THEN TimeFloat(1, Instant_sub(now, timestamp))
    ELSE LET seconds == as_secs(Instant_sub(now, timestamp)) IN
         IF ~unchecked /\ exceeds(seconds) THEN ErrorArithmetic
         ELSE TimeInt(as_INT(seconds))

\* ts1 - ts2
Subtract ==
    /\ top = "none"
    /\ \E a, b \in Instants :
          /\ ts1' = a /\ ts2' = b
          /\ tout' \in timestamp_sub(a, b)
    /\ top' = "-"
    /\ UNCHANGED <<parseVars, mergeVars, callVars, buildVars, nodeVars>>

\* timestamp.elapsed(): the clock never runs backwards
Elapsed ==
    /\ top = "none"
    /\ \E timestamp, now \in Instants :
          /\ ~Instant_gt(timestamp, now)
          /\ ts1' = timestamp /\ ts2' = now
          /\ tout' = timestamp_elapsed(timestamp, now)
    /\ top' = "elapsed"
    /\ UNCHANGED <<parseVars, mergeVars, callVars, buildVars, nodeVars>>

(***************************************************************************)
(* The methods of Expr and Stmt that the evaluator and the optimizer call   *)
(* on a parsed script: get_constant_value, get_constant_str and is_pure.   *)
(***************************************************************************)
\* the Union inside a Dynamic: its type, and the integer, the FLOAT, the text or the items it
\* holds; the items of a map are its entries, each a key holding one value
Union(t, v, f, s, items) == [t |-> t, v |-> v, f |-> f, s |-> s, items |-> items]
Union_int(v) == Union("int", v, Float(0, FALSE), "", <<>>)
Union_float(f) == Union("float", 0, f, "", <<>>)
Union_char(s) == Union("char", 0, Float(0, FALSE), s, <<>>)
Union_string(s) == Union("string", 0, Float(0, FALSE), s, <<>>)
Union_bool(b) == Union("bool", IF b THEN 1 ELSE 0, Float(0, FALSE), "", <<>>)
Union_unit == Union("unit", 0, Float(0, FALSE), "", <<>>)
Union_array(items) == Union("array", 0, Float(0, FALSE), "", items)
Union_entry(key, value) == Union("entry", 0, Float(0, FALSE), key, <<value>>)
Union_map(entries) == Union("map", 0, Float(0, FALSE), "", entries)
\* panic!("cannot get value of non-constant expression")
NotConstant == Union("panic", 0, Float(0, FALSE), "cannot get value of non-constant expression", <<>>)
NoDynamic == Union("none", 0, Float(0, FALSE), "", <<>>)

\* collect::<HashMap<_, _>>(): of the entries under one key the last one stays
RECURSIVE collect_map(_)
collect_map(entries) ==
    IF entries = <<>> THEN <<>>
    ELSE LET n == Len(entries)
             before == collect_map(SubSeq(entries, 1, n - 1)) IN
         SelectSeq(before, LAMBDA d : d.s # entries[n].s) \o <<entries[n]>>

RECURSIVE get_constant_value(_)
\* Expr::get_constant_value
get_constant_value(e) ==
    CASE e.k = "IntegerConstant" -> Union_int(e.v)
      [] e.k = "FloatConstant" -> Union_float(e.f)
      [] e.k = "CharConstant" -> Union_char(e.s)
      [] e.k = "StringConstant" -> Union_string(e.s)
      [] e.k = "True" -> Union_bool(TRUE)
      [] e.k = "False" -> Union_bool(FALSE)
      [] e.k = "Unit" -> Union_unit
      [] e.k = "Array" /\ \A j \in 1..Len(e.items) : is_constant(e.items[j]) ->
            LET items == [j \in 1..Len(e.items) |-> get_constant_value(e.items[j])] IN
            IF \E j \in 1..Len(items) : items[j] = NotConstant THEN NotConstant
            ELSE Union_array(items)
      [] e.k = "Map" /\ \A j \in 1..Len(e.entries) : is_constant(e.entries[j].expr) ->
            LET values == [j \in 1..Len(e.entries) |-> get_constant_value(e.entries[j].expr)] IN
            IF \E j \in 1..Len(values) : values[j] = NotConstant THEN NotConstant
            ELSE Union_map(collect_map([j \in 1..Len(values) |->
                                            Union_entry(e.entries[j].name, values[j])]))
      [] OTHER -> NotConstant

\* FLOAT::to_string of a whole number
Float_to_string(f) == (IF f.neg THEN "-" ELSE "") \o ToString(f.of)

\* Expr::get_constant_str
get_constant_str(e) ==
    CASE e.k = "FloatConstant" -> Union_string(Float_to_string(e.f))
      [] e.k = "IntegerConstant" -> Union_string(ToString(e.v))
      [] e.k = "CharConstant" -> Union_string(e.s)
      [] e.k = "StringConstant" -> Union_string("string")
      [] e.k = "True" -> Union_string("true")
      [] e.k = "False" -> Union_string("false")
      [] e.k = "Unit" -> Union_string("()")
      [] e.k = "Array" /\ \A j \in 1..Len(e.items) : is_constant(e.items[j]) ->
            Union_string("array")
      [] OTHER -> NotConstant

RECURSIVE Stmt_is_pure(_)
RECURSIVE Expr_is_pure(_)
\* Stmt::is_pure
Stmt_is_pure(st) ==
    CASE st.k = "Noop" -> TRUE
      [] st.k = "Expr" -> Expr_is_pure(st.expr)
      [] st.k = "IfThenElse" /\ st.has_else ->
            Expr_is_pure(st.guard) /\ Stmt_is_pure(st.body) /\ Stmt_is_pure(st.else_body)
      [] st.k = "IfThenElse" /\ ~st.has_else -> Stmt_is_pure(st.body)
      [] st.k = "While" -> Expr_is_pure(st.guard) /\ Stmt_is_pure(st.body)
      [] st.k = "Loop" -> Stmt_is_pure(st.body)
      [] st.k = "For" -> Expr_is_pure(st.expr) /\ Stmt_is_pure(st.body)
      [] st.k \in {"Let", "Const"} -> FALSE
      [] st.k = "Block" -> \A j \in 1..Len(st.stmts) : Stmt_is_pure(st.stmts[j])
      [] st.k \in {"Continue", "Break", "ReturnWithVal"} -> FALSE
      [] st.k = "Import" -> FALSE
      [] st.k = "Export" -> FALSE

\* Expr::is_pure
Expr_is_pure(e) ==
    CASE e.k = "Array" -> \A j \in 1..Len(e.items) : Expr_is_pure(e.items[j])
      [] e.k \in {"Index", "And", "Or", "In"} -> Expr_is_pure(e.lhs) /\ Expr_is_pure(e.rhs)
      [] e.k = "Stmt" -> Stmt_is_pure(e.stmt)
      [] e.k = "Variable" -> TRUE
      [] OTHER -> is_constant(e)

\* the first statement of the script parsed, and the expression it holds
Subject == statements[1]
HasSubject == result = "ok" /\ statements # <<>>
HasSubjectExpr ==
    /\ HasSubject
    /\ Subject.k \in {"Expr", "Const"} \/ (Subject.k = "Let" /\ Subject.has_init)
SubjectExpr == IF Subject.k = "Expr" THEN Subject.expr ELSE Subject.init

\* a call of get_constant_value on the expression of the first statement
GetConstantValue ==
    /\ HasSubjectExpr
    /\ cvalue = NoDynamic
    /\ cvalue' = get_constant_value(SubjectExpr)
    /\ UNCHANGED <<cstring, pure, parseVars, mergeVars, callVars, buildVars, timeVars>>

\* a call of get_constant_str on the expression of the first statement
GetConstantStr ==
    /\ HasSubjectExpr
    /\ cstring = NoDynamic
    /\ cstring' = get_constant_str(SubjectExpr)
    /\ UNCHANGED <<cvalue, pure, parseVars, mergeVars, callVars, buildVars, timeVars>>

\* a call of is_pure on the first statement
IsPure ==
    /\ HasSubject
    /\ pure = "unknown"
    /\ pure' = (IF Stmt_is_pure(Subject) THEN "true" ELSE "false")
    /\ UNCHANGED <<cvalue, cstring, parseVars, mergeVars, callVars, buildVars, timeVars>>

(***************************************************************************)
(* The specifications: of the parser (Spec), of AST::merge (SpecMerge) and  *)
(* of the adapters (SpecCall).  In each the other two stand still.         *)
(***************************************************************************)
ParseIdle ==
    /\ input = <<>> /\ ipos = 1 /\ stack = <<>> /\ statements = <<>> /\ functions = <<>>
    /\ result = "idle" /\ perr = NoErr /\ spos = 1 /\ sstack = <<>>

MergeIdle ==
    /\ ast1 = AST_new(<<>>, <<>>) /\ ast2 = AST_new(<<>>, <<>>) /\ ast3 = AST_new(<<>>, <<>>)
    /\ merged = NoMerges

CallIdle == reg = NotRegistered /\ call = NoCall /\ outcome = NoOutcome

TimeIdle == top = "none" /\ ts1 = Instant(0, 0) /\ ts2 = Instant(0, 0) /\ tout = NoTime

NodeIdle == cvalue = NoDynamic /\ cstring = NoDynamic /\ pure = "unknown"

\* the default build: no feature is enabled
DefaultBuild == no_float = FALSE /\ unchecked = FALSE

Init ==
    /\ input \in Scripts
    /\ ipos = 1
    /\ stack = <<>>
    /\ statements = <<>>
    /\ functions = <<>>
    /\ result = "parsing"
    /\ perr = NoErr
    /\ spos = 1
    /\ sstack = <<>>
    /\ MergeIdle
    /\ CallIdle
    /\ TimeIdle
    /\ NodeIdle
    /\ DefaultBuild

Next ==
    \/ ParseFnDef
    \/ PrivateNotFn
    \/ ParseGlobalStmt
    \/ ParseEnd

Spec == Init /\ [][Next]_vars

\* the parser on the expression scripts in the default build, and on the
\* negations, which hold no float literal, in the build without floats
InitExpr ==
    /\ \/ input \in ExprScripts /\ no_float = FALSE
       \/ input \in NegationScripts /\ no_float = TRUE
    /\ unchecked = FALSE
    /\ ipos = 1
    /\ stack = <<>>
    /\ statements = <<>>
    /\ functions = <<>>
    /\ result = "parsing"
    /\ perr = NoErr
    /\ spos = 1
    /\ sstack = <<>>
    /\ MergeIdle
    /\ CallIdle
    /\ TimeIdle
    /\ NodeIdle

SpecExpr == InitExpr /\ [][Next]_vars

InitMerge ==
    /\ ast1 \in SlotASTs(1) /\ ast2 \in SlotASTs(2) /\ ast3 \in SlotASTs(3)
    /\ merged = NoMerges
    /\ ParseIdle
    /\ CallIdle
    /\ TimeIdle
    /\ NodeIdle
    /\ DefaultBuild

NextMerge ==
    \/ MergeAB
    \/ MergeBC
    \/ MergeAB_C
    \/ MergeA_BC
    \/ AddAB

SpecMerge == InitMerge /\ [][NextMerge]_vars

InitCall == CallIdle /\ ParseIdle /\ MergeIdle /\ TimeIdle /\ NodeIdle /\ DefaultBuild

NextCall ==
    \/ RegisterFn
    \/ RegisterDynamicFn
    \/ RegisterResultFn
    \/ CallAdapter

SpecCall == InitCall /\ [][NextCall]_vars

\* the time package in every build of the features no_float and unchecked
InitTime ==
    /\ TimeIdle /\ ParseIdle /\ MergeIdle /\ CallIdle /\ NodeIdle
    /\ no_float \in BOOLEAN /\ unchecked \in BOOLEAN

NextTime ==
    \/ Subtract
    \/ Elapsed

SpecTime == InitTime /\ [][NextTime]_vars

\* the parser on scripts of one statement, and the methods called on what it
\* parsed
InitNode ==
    /\ input \in NodeScripts
    /\ ipos = 1
    /\ stack = <<>>
    /\ statements = <<>>
    /\ functions = <<>>
    /\ result = "parsing"
    /\ perr = NoErr
    /\ spos = 1
    /\ sstack = <<>>
    /\ MergeIdle
    /\ CallIdle
    /\ TimeIdle
    /\ NodeIdle
    /\ DefaultBuild

NextNode ==
    \/ ParseGlobalStmt
    \/ ParseEnd
    \/ GetConstantValue
    \/ GetConstantStr
    \/ IsPure

SpecNode == InitNode /\ [][NextNode]_vars

(***************************************************************************)
(* What the properties read off a state.                                    *)
(***************************************************************************)
\* a turn of the loop of parse_global_level has run
Turned == ipos > spos \/ result = "err"

\* the k-th token after the start of the last turn
TurnTok(k) == peek(input, spos + k)

\* the innermost binding of x that is not a module is a constant
InnermostIsConst(scope, x) ==
    \E j \in 1..Len(scope) :
        /\ scope[j].name = x
        /\ scope[j].typ = "Constant"
        /\ \A m \in (j + 1)..Len(scope) : ~(scope[m].name = x /\ scope[m].typ # "Module")

RECURSIVE Root(_)
\* the expression an index or dot chain starts from
Root(e) == IF e.k \in {"Index", "Dot"} THEN Root(e.lhs) ELSE e

\* the scope after a statement: what it declares is added
Declares(st, scope) ==
    CASE st.k = "Let" -> Append(scope, Entry(st.name, "Normal"))
      [] st.k = "Const" -> Append(scope, Entry(st.name, "Constant"))
      [] st.k = "Import" -> Append(scope, Entry(st.name, "Module"))
      [] OTHER -> scope

Visit(st, inloop, scope) == [st |-> st, inloop |-> inloop, scope |-> scope]

RECURSIVE WalkStmt(_, _, _)
RECURSIVE WalkSeq(_, _, _, _)
RECURSIVE WalkExpr(_, _, _)
RECURSIVE WalkExprs(_, _, _, _)

\* every statement at or below st, each with whether a loop body encloses it
\* and with the bindings in scope where it stands
WalkStmt(st, inloop, scope) ==
    <<Visit(st, inloop, scope)>> \o
    CASE st.k = "IfThenElse" ->
            WalkExpr(st.guard, inloop, scope) \o WalkStmt(st.body, inloop, scope)
               \o (IF st.has_else THEN WalkStmt(st.else_body, inloop, scope) ELSE <<>>)
      [] st.k = "While" -> WalkExpr(st.guard, inloop, scope) \o WalkStmt(st.body, TRUE, scope)
      [] st.k = "Loop" -> WalkStmt(st.body, TRUE, scope)
      [] st.k = "For" ->
            WalkExpr(st.expr, inloop, scope)
               \o WalkStmt(st.body, TRUE, Append(scope, Entry(st.name, "Normal")))
      [] st.k = "Let" -> IF st.has_init THEN WalkExpr(st.init, inloop, scope) ELSE <<>>
      [] st.k = "Const" -> WalkExpr(st.init, inloop, scope)
      [] st.k = "Block" -> WalkSeq(st.stmts, 1, inloop, scope)
      [] st.k = "Expr" -> WalkExpr(st.expr, inloop, scope)
      [] st.k = "ReturnWithVal" ->
            IF st.has_val THEN WalkExpr(st.val, inloop, scope) ELSE <<>>
      [] st.k = "Import" -> WalkExpr(st.expr, inloop, scope)
      [] OTHER -> <<>>

\* the statements of a list from the j-th on, the scope growing along the list
WalkSeq(stmts, j, inloop, scope) ==
    IF j > Len(stmts) THEN <<>>
    ELSE WalkStmt(stmts[j], inloop, scope)
            \o WalkSeq(stmts, j + 1, inloop, Declares(stmts[j], scope))

\* the statements inside an expression
WalkExpr(e, inloop, scope) ==
    CASE e.k = "Stmt" -> WalkStmt(e.stmt, inloop, scope)
      [] e.k \in {"Assignment", "Dot", "Index", "In", "And", "Or"} ->
            WalkExpr(e.lhs, inloop, scope) \o WalkExpr(e.rhs, inloop, scope)
      [] e.k = "FnCall" -> WalkExprs(e.args, 1, inloop, scope)
      [] e.k = "Array" -> WalkExprs(e.items, 1, inloop, scope)
      [] e.k = "Map" ->
            WalkExprs([j \in 1..Len(e.entries) |-> e.entries[j].expr], 1, inloop, scope)
      [] OTHER -> <<>>

WalkExprs(es, j, inloop, scope) ==
    IF j > Len(es) THEN <<>>
    ELSE WalkExpr(es[j], inloop, scope) \o WalkExprs(es, j + 1, inloop, scope)

\* every statement of the global level so far
GlobalVisits == WalkSeq(statements, 1, FALSE, <<>>)

\* every statement of the body of a function, its parameters in scope
FnVisits(f) ==
    WalkStmt(f.body, FALSE, [j \in 1..Len(f.params) |-> Entry(f.params[j], "Normal")])

\* P holds of every statement parsed so far
AllVisits(P(_)) ==
    /\ \A j \in 1..Len(GlobalVisits) : P(GlobalVisits[j])
    /\ \A h \in DOMAIN functions :
          \A j \in 1..Len(FnVisits(functions[h])) : P(FnVisits(functions[h])[j])

\* the scope the global level has reached
RECURSIVE ScopeAfter(_, _, _)
ScopeAfter(stmts, j, scope) ==
    IF j > Len(stmts) THEN scope ELSE ScopeAfter(stmts, j + 1, Declares(stmts[j], scope))

(***************************************************************************)
(* Assignments.                                                            *)
(***************************************************************************)
\* the target the last turn began with, parsed in the scope of the turn
Target == descend("parse_expr", <<input, spos, sstack, TRUE>>)

\* the last turn read `target op rhs`: an expression, an assignment token
\* and an expression
AssignTurn ==
    /\ Turned
    /\ TurnTok(0).t \in {"Identifier", "IntegerConstant", "StringConst"}
    /\ IsOk(Target)
    /\ peek(input, Target.i).t \in AssignTokens
    /\ IsOk(descend("parse_expr", <<input, Target.i + 1, Target.stack, TRUE>>))

\* the target of the last turn is the variable the turn begins with, or an
\* index or dot chain that starts from it
TargetRootedAtFirst ==
    /\ TurnTok(0).t = "Identifier"
    /\ Target.node.k \in {"Variable", "Index", "Dot"}
    /\ Root(Target.node).k = "Variable"
    /\ Root(Target.node).pos = spos
    /\ Root(Target.node).modules = <<>>

\* a visited statement is an assignment whose target starts from a variable
\* bound to a constant where the statement stands
AssignsConstant(v) ==
    /\ v.st.k = "Expr"
    /\ v.st.expr.k = "Assignment"
    /\ Root(v.st.expr.lhs).k = "Variable"
    /\ Root(v.st.expr.lhs).modules = <<>>
    /\ InnermostIsConst(v.scope, Root(v.st.expr.lhs).name)

NotAssignsConstant(v) == ~AssignsConstant(v)

\* C1: when the innermost non-module binding of x is a constant, a statement
\* `x = e`, `x op= e` or an assignment to an index or dot chain starting from
\* x fails to parse with AssignmentToConstant("x"); and no assignment parsed
\* anywhere, at the global level, in a block, a loop or a function body, has
\* a target starting from a variable bound to a constant there.
C1_ConstAssignmentRejected ==
    /\ (AssignTurn /\ TargetRootedAtFirst
           /\ InnermostIsConst(ScopeAfter(statements, 1, <<>>), TurnTok(0).s))
          => /\ result = "err"
             /\ perr.type = "AssignmentToConstant"
             /\ perr.arg = TurnTok(0).s
    /\ AllVisits(NotAssignsConstant)

\* C1 happens: x is bound by let and then by const, and the op-assignment to
\* an index chain from x is refused with AssignmentToConstant("x")
C1_Witness ==
    /\ AssignTurn /\ TargetRootedAtFirst
    /\ Target.node.k = "Index"
    /\ peek(input, Target.i).t = "PlusAssign"
    /\ Len(sstack) = 2
    /\ sstack[1] = Entry("x", "Normal") /\ sstack[2] = Entry("x", "Constant")
    /\ result = "err"
    /\ perr = PErr("AssignmentToConstant", "x", spos)

RECURSIVE EndsInCall(_)
\* the last link of an index or dot chain is a method call
EndsInCall(e) ==
    /\ e.k \in {"Dot", "Index"}
    /\ \/ e.k = "Dot" /\ e.rhs.k = "FnCall"
       \/ e.rhs.k \in {"Dot", "Index"} /\ EndsInCall(e.rhs)

\* a variable, or an index or dot chain from a variable that does not end in
\* a method call
IsPlace(e) ==
    \/ e.k = "Variable"
    \/ e.k \in {"Dot", "Index"} /\ e.lhs.k = "Variable" /\ ~EndsInCall(e)

TargetIsPlace(v) ==
    (v.st.k = "Expr" /\ v.st.expr.k = "Assignment") => IsPlace(v.st.expr.lhs)

\* C7: no parsed assignment has a target that is not a place, and a turn
\* whose target is not a place (a literal, a call result, a chain from one of
\* these, a dot chain ending in a method call) fails with AssignmentToCopy
\* or AssignmentToConstant.
C7_OnlyPlacesAssigned ==
    /\ AllVisits(TargetIsPlace)
    /\ (AssignTurn /\ ~IsPlace(Target.node))
          => result = "err" /\ perr.type \in {"AssignmentToCopy", "AssignmentToConstant"}

(***************************************************************************)
(* break and continue.                                                     *)
(***************************************************************************)
\* the braces open at a token are in a loop body: the innermost brace that a
\* loop or a function opened was opened by a loop
InLoop(ctx) ==
    \E j \in 1..Len(ctx) :
        /\ ctx[j] = "loop"
        /\ \A m \in (j + 1)..Len(ctx) : ctx[m] \notin {"loop", "fn"}

RECURSIVE FirstStray(_, _, _, _)
\* the position of the first break or continue of the token stream, from i
\* on, that no loop body of its function encloses (0 when there is none).
\* ctx lists what opened each brace still open; pending is what the next
\* brace opens.
FirstStray(toks, i, ctx, pending) ==
    IF i > Len(toks) THEN 0
    ELSE CASE toks[i].t \in {"While", "Loop", "For"} -> FirstStray(toks, i + 1, ctx, "loop")
           [] toks[i].t = "Fn" -> FirstStray(toks, i + 1, ctx, "fn")
           [] toks[i].t = "LeftBrace" ->
                 FirstStray(toks, i + 1, Append(ctx, pending), "block")
           [] toks[i].t = "MapStart" -> FirstStray(toks, i + 1, Append(ctx, "map"), pending)
           [] toks[i].t = "RightBrace" ->
                 FirstStray(toks, i + 1, truncate(ctx, Len(ctx) - 1), pending)
           [] toks[i].t \in {"Break", "Continue"} ->
                 IF InLoop(ctx) THEN FirstStray(toks, i + 1, ctx, pending) ELSE i
           [] OTHER -> FirstStray(toks, i + 1, ctx, pending)

StrayPos == FirstStray(input, 1, <<>>, "block")

NotStray(v) == v.st.k \in {"Break", "Continue"} => v.inloop

\* C8: a script with a break or continue outside every loop body of its
\* function (or of the global level) does not parse: unless parsing stopped
\* before it, the error is LoopBreak at that statement; and no statement
\* parsed so far is a Break or Continue outside a loop body.
C8_BreakOutsideLoopRejected ==
    /\ (result # "parsing" /\ StrayPos # 0)
          => /\ result = "err"
             /\ perr.pos < StrayPos \/ perr = PErr("LoopBreak", "", StrayPos)
    /\ AllVisits(NotStray)

\* C8 happens: a loop is closed, the break after it is refused
C8_Witness ==
    /\ result = "err"
    /\ perr = PErr("LoopBreak", "", StrayPos)
    /\ \E j \in 1..(StrayPos - 1) : input[j].t \in {"While", "Loop", "For"}
    /\ TurnTok(0).t \in {"Break", "Continue"}

(***************************************************************************)
(* Map literals.                                                           *)
(***************************************************************************)
\* the last turn began  let m = #{
MapTurn ==
    /\ Turned
    /\ TurnTok(0).t = "Let" /\ TurnTok(1).t = "Identifier"
    /\ TurnTok(2).t = "Equals" /\ TurnTok(3).t = "MapStart"

\* where the literal closes, and the entries `key : integer` it holds
MapClose ==
    CHOOSE r \in (spos + 4)..(Len(input) + 1) :
        /\ peek(input, r).t \in {"RightBrace", "EOF"}
        /\ \A q \in (spos + 4)..(r - 1) : input[q].t # "RightBrace"
NEntries == (MapClose - spos - 3) \div 4
KeyPos(j) == spos + 4 * j
Key(j) == input[KeyPos(j)]

MapWellFormed ==
    /\ peek(input, MapClose).t = "RightBrace"
    /\ MapClose = spos + 4 + (IF NEntries = 0 THEN 0 ELSE 4 * NEntries - 1)
    /\ \A j \in 1..NEntries :
          /\ Key(j).t \in {"Identifier", "StringConst"}
          /\ input[KeyPos(j) + 1].t = "Colon"
          /\ input[KeyPos(j) + 2].t = "IntegerConstant"
          /\ j < NEntries => input[KeyPos(j) + 3].t = "Comma"

\* the pairs of entries with the same key text
SameKey == {ab \in (1..NEntries) \X (1..NEntries) : ab[1] < ab[2] /\ Key(ab[1]).s = Key(ab[2]).s}

LastStatement == statements[Len(statements)]

\* C9: a well-formed map literal is refused with DuplicatedProperty(k) exactly
\* when two entries have the same key text k, identifier or string; the error
\* is at a later one of the two; otherwise the Map node holds every entry, in
\* source order.
C9_DuplicateKeysRejected ==
    (MapTurn /\ MapWellFormed) =>
        IF SameKey # {}
        THEN /\ result = "err"
             /\ perr.type = "DuplicatedProperty"
             /\ \E ab \in SameKey : perr.arg = Key(ab[2]).s /\ perr.pos = KeyPos(ab[2])
        ELSE /\ perr = NoErr
             /\ statements # <<>>
             /\ LastStatement.k = "Let"
             /\ LastStatement.init.k = "Map"
             /\ Len(LastStatement.init.entries) = NEntries
             /\ \A j \in 1..NEntries :
                   /\ LastStatement.init.entries[j].name = Key(j).s
                   /\ LastStatement.init.entries[j].pos = KeyPos(j)
                   /\ LastStatement.init.entries[j].expr = IntegerConstant(j, KeyPos(j) + 2)

\* C9 happens: the first and third keys are `a` and "a", one an identifier
\* and one a string, around a different key; the literal is refused
C9_Witness ==
    /\ MapTurn /\ MapWellFormed
    /\ NEntries = 3
    /\ Key(1).t = "Identifier" /\ Key(3).t = "StringConst"
    /\ Key(1).s = Key(3).s /\ Key(2).s # Key(1).s
    /\ result = "err"
    /\ perr = PErr("DuplicatedProperty", Key(3).s, KeyPos(3))

(***************************************************************************)
(* Constants.                                                              *)
(***************************************************************************)
RECURSIVE ConstantExpression(_)
\* a literal, an array or map literal whose elements are all constant
\* expressions, or a string or character literal `in` a string literal
ConstantExpression(e) ==
    \/ e.k \in {"IntegerConstant", "FloatConstant", "CharConstant", "StringConstant",
                "True", "False", "Unit"}
    \/ e.k = "Array" /\ \A j \in 1..Len(e.items) : ConstantExpression(e.items[j])
    \/ e.k = "Map" /\ \A j \in 1..Len(e.entries) : ConstantExpression(e.entries[j].expr)
    \/ /\ e.k = "In"
       /\ e.lhs.k \in {"StringConstant", "CharConstant"}
       /\ e.rhs.k = "StringConstant"

\* the last turn began  const name =  and an initializer follows that parses
ConstTurn ==
    /\ Turned
    /\ TurnTok(0).t = "Const" /\ TurnTok(1).t = "Identifier" /\ TurnTok(2).t = "Equals"
    /\ IsOk(descend("parse_expr", <<input, spos + 3, sstack, TRUE>>))

\* the last turn read  const name  with no initializer
BareConstTurn ==
    /\ Turned
    /\ TurnTok(0).t = "Const" /\ TurnTok(1).t = "Identifier" /\ TurnTok(2).t # "Equals"

Initializer == descend("parse_expr", <<input, spos + 3, sstack, TRUE>>).node

ConstIsConstant(v) == v.st.k = "Const" => ConstantExpression(v.st.init)

\* C10: `const name = e` is accepted exactly when e is a constant expression:
\* then the Const statement holds e and `name` is pushed as a constant;
\* otherwise parsing fails with ForbiddenConstantExpr(name) at the position of
\* e and the stack is left as it was.  With no initializer the Const holds
\* Unit.  Every Const statement parsed anywhere has a constant initializer.
C10_ConstNeedsConstantExpr ==
    /\ ConstTurn =>
          IF ConstantExpression(Initializer)
          THEN /\ perr.type # "ForbiddenConstantExpr"
               /\ statements # <<>>
               /\ LastStatement = Const(TurnTok(1).s, spos + 1, Initializer)
               /\ stack = Append(sstack, Entry(TurnTok(1).s, "Constant"))
          ELSE /\ result = "err"
               /\ perr = PErr("ForbiddenConstantExpr", TurnTok(1).s, Expr_position(Initializer))
               /\ stack = sstack
    /\ BareConstTurn =>
          /\ statements # <<>>
          /\ LastStatement.k = "Const" /\ LastStatement.init.k = "Unit"
          /\ stack = Append(sstack, Entry(TurnTok(1).s, "Constant"))
    /\ AllVisits(ConstIsConstant)

\* C10 happens: the initializer is an array literal that holds a variable
\* below another array literal, and the statement is refused
C10_Witness ==
    /\ ConstTurn
    /\ Initializer.k = "Array"
    /\ Len(Initializer.items) = 1
    /\ Initializer.items[1].k = "Array"
    /\ ~ConstantExpression(Initializer)
    /\ result = "err"
    /\ perr.type = "ForbiddenConstantExpr" /\ perr.arg = "y"
    /\ stack = sstack

(***************************************************************************)
(* AST::merge (SpecMerge).                                                 *)
(***************************************************************************)
\* the functions of a library
Defs(lib) == {lib[h] : h \in DOMAIN lib}
SameSignature(f, g) == f.name = g.name /\ Len(f.params) = Len(g.params)

\* m is made of a's statements followed by b's
Concatenates(m, a, b) == m.some => m.ast.statements = a.statements \o b.statements

\* C2: a.merge(b) has exactly a's statements followed by b's, each in their
\* order, also when one or both lists are empty and also through `+`; so
\* merging three ASTs gives the three lists in the order of merging however
\* the merges are grouped, and merging with an AST of no statements leaves
\* the other's statements as they were.
C2_MergeConcatenatesStatements ==
    /\ Concatenates(merged.ab, ast1, ast2)
    /\ Concatenates(merged.bc, ast2, ast3)
    /\ Concatenates(merged.sum, ast1, ast2)
    /\ merged.ab_c.some =>
          merged.ab_c.ast.statements = ast1.statements \o ast2.statements \o ast3.statements
    /\ merged.ab_c.some /\ merged.a_bc.some =>
          merged.ab_c.ast.statements = merged.a_bc.ast.statements
    /\ merged.ab.some /\ ast1.statements = <<>> => merged.ab.ast.statements = ast2.statements
    /\ merged.ab.some /\ ast2.statements = <<>> => merged.ab.ast.statements = ast1.statements

C2_Witness ==
    /\ merged.ab.some /\ merged.ab_c.some /\ merged.a_bc.some /\ merged.sum.some
    /\ ast1.statements = <<>>
    /\ Len(ast2.statements) = MaxMergeStmts
    /\ ast3.statements # <<>>
    /\ merged.a_bc.ast.statements = ast2.statements \o ast3.statements

\* the library of m is the union of those of a and b, b's definition kept
\* where both define a function of the same name and parameter count
UnionOverriding(m, a, b) ==
    m.some =>
       /\ Defs(b.functions) \subseteq Defs(m.ast.functions)
       /\ \A f \in Defs(a.functions) :
             f \in Defs(m.ast.functions)
                <=> ~ \E g \in Defs(b.functions) : SameSignature(f, g)
       /\ Defs(m.ast.functions) \subseteq Defs(a.functions) \cup Defs(b.functions)
       /\ \A f, g \in Defs(m.ast.functions) : SameSignature(f, g) => f = g

\* C3: the library of a.merge(b) is the union of the two libraries by name
\* and parameter count: every function of b is in it, a function of a is in
\* it exactly when b has none of the same name and parameter count, and
\* nothing else is.
C3_MergedLibraryIsUnion ==
    /\ UnionOverriding(merged.ab, ast1, ast2)
    /\ UnionOverriding(merged.bc, ast2, ast3)
    /\ UnionOverriding(merged.sum, ast1, ast2)
    /\ merged.ab.some /\ merged.ab_c.some => UnionOverriding(merged.ab_c, merged.ab.ast, ast3)
    /\ merged.bc.some /\ merged.a_bc.some => UnionOverriding(merged.a_bc, ast1, merged.bc.ast)

C3_Witness ==
    /\ merged.ab.some
    /\ \E f \in Defs(ast1.functions), g \in Defs(ast2.functions) :
          /\ SameSignature(f, g)
          /\ g \in Defs(merged.ab.ast.functions)
          /\ f \notin Defs(merged.ab.ast.functions)
    /\ \E f \in Defs(ast1.functions) :
          /\ f \in Defs(merged.ab.ast.functions)
          /\ \A g \in Defs(ast2.functions) : ~SameSignature(f, g)

(***************************************************************************)
(* The adapters (SpecCall).                                                *)
(***************************************************************************)
Called == call.made
WrongCount == Called /\ Len(call.args) # Len(reg.params)
WrongType ==
    /\ Called
    /\ Len(call.args) = Len(reg.params)
    /\ \E j \in 1..Len(call.args) : call.args[j].type # reg.params[j]
WellTyped ==
    /\ Called
    /\ Len(call.args) = Len(reg.params)
    /\ \A j \in 1..Len(call.args) : call.args[j].type = reg.params[j]

\* C4: whichever way a function of N parameters was registered, a call with
\* a number of arguments other than N returns the error
\* ErrorFunctionArgsMismatch(name, N, number given, position of the call),
\* the native function is not run and the arguments are as they were.
C4_ArgCountMismatch ==
    WrongCount =>
       /\ outcome.kind = "Err"
       /\ outcome.err.type = "ErrorFunctionArgsMismatch"
       /\ outcome.err.name = reg.name
       /\ outcome.err.expected = Len(reg.params)
       /\ outcome.err.got = Len(call.args)
       /\ outcome.err.pos = call.pos
       /\ ~outcome.invoked
       /\ outcome.args = call.args

C4_Witness ==
    /\ WrongCount
    /\ reg.flavour = "fn"
    /\ Len(reg.params) = MaxParams
    /\ Len(call.args) = MaxParams - 1
    /\ outcome.err = ErrorFunctionArgsMismatch("add", MaxParams, MaxParams - 1, call.pos)

\* C5: a call with the right number of arguments, one of them of a type
\* other than the declared one, returns an error to the caller without
\* running the native function and without aborting.
C5_TypeMismatchIsError ==
    WrongType => outcome.kind = "Err" /\ ~outcome.invoked

\* C6: for a function registered with register_result_fn, an Err(e) of the
\* native function comes back as Err of e with its position replaced by the
\* position of the call, whatever position e had; an Ok(r) comes back as Ok
\* of r as a Dynamic.
C6_ResultFnStampsPosition ==
    WellTyped /\ reg.flavour = "result" =>
       /\ outcome.invoked
       /\ reg.f.kind = "Err" =>
             /\ outcome.kind = "Err"
             /\ outcome.err.pos = call.pos
             /\ \A k \in (DOMAIN reg.f.err) \ {"pos"} : outcome.err[k] = reg.f.err[k]
       /\ reg.f.kind = "Ok" =>
             /\ outcome.kind = "Ok"
             /\ outcome.val = Dynamic(reg.ret, reg.f.val)
             /\ outcome.err = NoError

C6_Witness ==
    /\ WellTyped /\ reg.flavour = "result"
    /\ reg.f.kind = "Err"
    /\ reg.f.err.pos # 0 /\ reg.f.err.pos # call.pos
    /\ Len(reg.params) > 0
    /\ outcome.kind = "Err" /\ outcome.err.pos = call.pos

(***************************************************************************)
(* Indexing (SpecExpr).                                                    *)
(***************************************************************************)
Parsed == result # "parsing"
Rejected(type) == result = "err" /\ perr.type = type

\* an index that is a literal of a type that is no index
NonIndexKinds == {"float", "char", "bool", "unit", "and", "or", "in"}

\* a mismatch known from the script: an index of a type that is no index at
\* any level, or, at the first level, where the value indexed is the root
\* itself, a number indexing a map literal or a string indexing an array or
\* string literal; the value indexed at a later level is the result of an
\* indexing and of no known type
StaticMismatch(d) ==
    \/ \E j \in 1..Len(d.idx) : d.idx[j] \in NonIndexKinds
    \/ d.root = "map" /\ d.idx[1] = "int"
    \/ d.root \in {"array", "string"} /\ d.idx[1] = "str"

\* C11: an index chain is rejected with MalformedIndexExpr exactly when it
\* holds a mismatch known from the script, each level being judged against
\* the value indexed at that level; every other chain, such as v["a"]["b"]
\* and v[0]["k"], is accepted.
C11_IndexMismatchRejected ==
    Parsed /\ input \in IndexScripts =>
       \A d \in IndexCases :
          input = IndexScript(d) =>
             /\ Rejected("MalformedIndexExpr") <=> StaticMismatch(d)
             /\ ~StaticMismatch(d) => result = "ok"

\* C12: an index that is a negative integer literal, made by folding a unary
\* minus into an integer literal, is rejected with MalformedIndexExpr
\* whatever is indexed and at whatever level of the chain it stands.
C12_NegativeIndexRejected ==
    Parsed /\ input \in NegIndexScripts =>
       Rejected("MalformedIndexExpr") /\ statements = <<>>

C12_Witness ==
    /\ input = IndexScript(IndexCase("call", <<"var", "neg">>))
    /\ Rejected("MalformedIndexExpr")
    /\ perr.arg = "Array access expects non-negative index"

(***************************************************************************)
(* Negation of integer literals (SpecExpr).                                *)
(***************************************************************************)
\* what k negations make of the integer n: an integer while the negation is
\* representable; from the negation of MIN_INT on, the float -(MIN_INT as
\* FLOAT) negated once per further minus sign, or, without floats, an error
NegInt(v) == [kind |-> "int", v |-> v, neg |-> FALSE]
NegFloat(neg) == [kind |-> "float", v |-> MIN_INT, neg |-> neg]
NegError == [kind |-> "err", v |-> 0, neg |-> FALSE]
RECURSIVE Negated(_, _)
Negated(n, k) ==
    IF k = 0 THEN NegInt(n)
    ELSE LET m == Negated(n, k - 1) IN
         CASE m.kind = "int" /\ m.v # MIN_INT -> NegInt(0 - m.v)
           [] m.kind = "int" /\ m.v = MIN_INT -> IF no_float THEN NegError ELSE NegFloat(TRUE)
           [] m.kind = "float" -> NegFloat(~m.neg)
           [] OTHER -> NegError

\* the position of the literal of a negation script
LiteralPos(d) == IF d.paren THEN d.k + 2 ELSE d.k + 1

\* C13: unary minus on an integer literal n folds into the integer literal
\* -n whenever -n is representable, so that two minus signs give n back; the
\* negation of MIN_INT gives the float literal -(MIN_INT as FLOAT) when
\* floats are enabled and the error MalformedNumber otherwise, and never an
\* integer.
C13_NegationFolds ==
    Parsed /\ input \in NegationScripts =>
       \A d \in NegationCases :
          input = NegationScript(d) =>
          LET e == Negated(d.n, d.k) IN
          CASE e.kind = "int" ->
                 /\ result = "ok"
                 /\ statements = <<ExprStmt(IntegerConstant(e.v, LiteralPos(d)))>>
            [] e.kind = "float" ->
                 /\ result = "ok"
                 /\ statements =
                       <<ExprStmt(FloatConstant(Float(MIN_INT, e.neg), LiteralPos(d)))>>
            [] OTHER ->
                 /\ Rejected("BadInput") /\ perr.arg = "MalformedNumber"
                 /\ perr.pos = LiteralPos(d)

C13_Witness ==
    /\ input = NegationScript(NegationCase(1, MIN_INT, TRUE))
    /\ ~no_float
    /\ result = "ok"
    /\ statements = <<ExprStmt(FloatConstant(Float(MIN_INT, TRUE), 3))>>

(***************************************************************************)
(* Duplicated parameters and exports (SpecExpr).                           *)
(***************************************************************************)
Twice(names, x) == \E a, b \in 1..Len(names) : a < b /\ names[a] = x /\ names[b] = x
HasDuplicate(names) == \E a \in 1..Len(names) : Twice(names, names[a])
OwnNames(d) == [j \in 1..Len(d) |-> d[j].name]

\* C14: a function definition with two parameters of one name is rejected
\* with FnDuplicatedParam(function, parameter) and an export list exporting
\* one variable twice with DuplicatedExport(variable), the `as` renames not
\* being compared; lists of distinct names are accepted.
C14_DuplicateNamesRejected ==
    /\ Parsed /\ input \in FnScripts =>
       \A d \in FnCases :
          input = FnScript(d) =>
             IF HasDuplicate(d.names)
             THEN /\ Rejected("FnDuplicatedParam")
                  /\ perr.arg = "f" /\ Twice(d.names, perr.arg2)
                  /\ functions = <<>>
             ELSE /\ result = "ok"
                  /\ \E h \in DOMAIN functions :
                        functions[h].name = "f" /\ functions[h].params = d.names
    /\ Parsed /\ input \in ExportScripts =>
       \A d \in ExportCases :
          input = ExportScript(d) =>
             IF HasDuplicate(OwnNames(d))
             THEN /\ Rejected("DuplicatedExport")
                  /\ Twice(OwnNames(d), perr.arg)
                  /\ statements = <<>>
             ELSE /\ result = "ok"
                  /\ Len(statements) = 1 /\ statements[1].k = "Export"
                  /\ [j \in 1..Len(d) |-> statements[1].exports[j].name] = OwnNames(d)

C14_Witness ==
    \/ /\ input = FnScript(FnCase(<<"a", "b", "a">>, FALSE))
       /\ Rejected("FnDuplicatedParam") /\ perr.arg2 = "a"
    \/ /\ input = ExportScript(<<Exported("a", ""), Exported("b", "a"), Exported("a", "a")>>)
       /\ Rejected("DuplicatedExport") /\ perr.arg = "a"

(***************************************************************************)
(* The nodes of the parsed AST (SpecExpr).                                 *)
(***************************************************************************)
\* an expression node with its parent's kind, its side under the parent,
\* whether it is the head of the right operand of a `.`, and the bindings in
\* scope where it stands
Node(e, parent, side, method) == [e |-> e, parent |-> parent, side |-> side, method |-> method]

RECURSIVE ExprNodes(_, _, _, _)
RECURSIVE ExprNodesOf(_, _, _)
\* every expression node at or below e; the statements of a statement
\* expression are statements of their own
ExprNodes(e, parent, side, method) ==
    <<Node(e, parent, side, method)>> \o
    CASE e.k \in {"Assignment", "In", "And", "Or"} ->
            ExprNodes(e.lhs, e.k, "lhs", FALSE) \o ExprNodes(e.rhs, e.k, "rhs", FALSE)
      [] e.k = "Dot" ->
            ExprNodes(e.lhs, e.k, "lhs", method) \o ExprNodes(e.rhs, e.k, "rhs", TRUE)
      [] e.k = "Index" ->
            ExprNodes(e.lhs, e.k, "lhs", method) \o ExprNodes(e.rhs, e.k, "rhs", FALSE)
      [] e.k = "FnCall" -> ExprNodesOf(e.args, 1, e.k)
      [] e.k = "Array" -> ExprNodesOf(e.items, 1, e.k)
      [] e.k = "Map" -> ExprNodesOf([j \in 1..Len(e.entries) |-> e.entries[j].expr], 1, e.k)
      [] OTHER -> <<>>

ExprNodesOf(es, j, parent) ==
    IF j > Len(es) THEN <<>>
    ELSE ExprNodes(es[j], parent, "item", FALSE) \o ExprNodesOf(es, j + 1, parent)

\* the expressions a statement holds itself
OwnExprs(st) ==
    CASE st.k \in {"IfThenElse", "While"} -> <<st.guard>>
      [] st.k \in {"For", "Expr", "Import"} -> <<st.expr>>
      [] st.k = "Let" -> IF st.has_init THEN <<st.init>> ELSE <<>>
      [] st.k = "Const" -> <<st.init>>
      [] st.k = "ReturnWithVal" -> IF st.has_val THEN <<st.val>> ELSE <<>>
      [] OTHER -> <<>>

\* P(node, scope) holds of every expression node of the statements visited
NodesOfVisits(visits, P(_, _)) ==
    \A j \in 1..Len(visits) :
       \A m \in 1..Len(OwnExprs(visits[j].st)) :
          LET nodes == ExprNodes(OwnExprs(visits[j].st)[m], "Stmt", "expr", FALSE) IN
          \A n \in 1..Len(nodes) : P(nodes[n], visits[j].scope)

\* P(node, scope) holds of every expression node parsed so far
AllNodes(P(_, _)) ==
    /\ NodesOfVisits(GlobalVisits, P)
    /\ \A h \in DOMAIN functions : NodesOfVisits(FnVisits(functions[h]), P)

\* some expression node parsed so far satisfies P(node, scope)
SomeNode(P(_, _)) == LET NotP(n, scope) == ~P(n, scope) IN ~AllNodes(NotP)

(***************************************************************************)
(* Cached hashes of function calls (SpecExpr).                             *)
(***************************************************************************)
IsFnCall(n) == n.e.k = "FnCall"
HashFor(e, num) == e.hash = calc_fn_hash(ModNames(e.modules), e.name, num)
IsUnaryOp(e) == e.name \in {"-", "!"} /\ Len(e.args) = 1
UnderDot(n) == n.parent = "Dot" /\ n.side = "rhs"

C16_MethodCallHash ==
    input \in ChainScripts =>
       LET P(n, scope) ==
              IsFnCall(n) =>
                 HashFor(n.e, IF n.method THEN Len(n.e.args) + 1 ELSE Len(n.e.args))
       IN AllNodes(P)

(***************************************************************************)
(* Resolved offsets of variables (SpecExpr).                               *)
(***************************************************************************)
\* the entry at offset k from the top of a scope
AtOffset(scope, k) == scope[Len(scope) - k + 1]
\* a Normal or Constant entry of that name
Binds(entry, name) == entry.name = name /\ entry.typ \in {"Normal", "Constant"}

\* the offset of a variable is that of the innermost binding of `name`
ResolvesTo(e, scope, name) ==
    IF \E j \in 1..Len(scope) : Binds(scope[j], name)
    THEN /\ e.index \in 1..Len(scope)
         /\ Binds(AtOffset(scope, e.index), name)
         /\ \A k \in 1..(e.index - 1) : ~Binds(AtOffset(scope, k), name)
    ELSE e.index = 0

LookedUp(e) == IF e.modules = <<>> THEN e.name ELSE e.modules[1].name

Leaves(form) ==
    CASE form \in {"let a = a", "let a"} -> <<Entry("a", "Normal")>>
      [] form = "const a" -> <<Entry("a", "Constant")>>
      [] form = "import a as a" -> <<Entry("a", "Module")>>
      [] OTHER -> <<>>

\* C18: let, const and import push one entry of their kind once the
\* initializer or path is parsed; `for` pushes its variable once the iterated
\* expression is parsed; a block and a `for` leave the Stack as they found
\* it; a function body is parsed against its parameters alone.  So the Stack
\* of the global level holds the declarations of the global statements parsed
\* so far and nothing else, and every variable read resolves in the scope
\* that discipline gives.
C18_StackDiscipline ==
    /\ result # "error" => stack = ScopeAfter(statements, 1, <<>>)
    /\ Parsed /\ input \in FormScripts =>
       \A d \in FormCases :
          input = FormScript(d) =>
             /\ result = "ok"
             /\ stack = (IF d.bound THEN <<Entry("a", "Normal")>> ELSE <<>>) \o Leaves(d.form)
             /\ LET P(n, scope) == n.e.k = "Variable" => ResolvesTo(n.e, scope, n.e.name)
                IN AllNodes(P)

C18_Witness ==
    /\ input = FormScript(FormCase(TRUE, "for a in a"))
    /\ result = "ok"
    /\ stack = <<Entry("a", "Normal")>>
    /\ statements[2].k = "For"
    /\ statements[2].expr.index = 1
    /\ statements[2].body.stmts[1].expr.index = 1
    /\ statements[3].expr.index = 1

(***************************************************************************)
(* Property nodes (SpecExpr).                                              *)
(***************************************************************************)
\* C19: a Property node is the right child of a Dot or Index node, never a
\* left child of one and never a root expression, and an identifier used as
\* an index expression (`i` in the scripts) is not turned into a Property.
C19_PropertyOnlyRightChild ==
    LET P(n, scope) ==
           n.e.k = "Property" =>
              /\ n.parent \in {"Dot", "Index"}
              /\ n.side = "rhs"
              /\ n.e.name # "i"
    IN AllNodes(P)

(***************************************************************************)
(* The tree of binary operators (SpecExpr).                                *)
(***************************************************************************)
Leaf(name) == <<name>>
Branch(l, op, r) == <<l, op, r>>

RECURSIVE Shape(_)
\* the operator tree of an expression over variables
Shape(e) ==
    CASE e.k \in {"Variable", "Property"} -> Leaf(e.name)
      [] e.k = "FnCall" -> Branch(Shape(e.args[1]), e.name, Shape(e.args[2]))
      [] e.k = "Dot" -> Branch(Shape(e.lhs), ".", Shape(e.rhs))
      [] e.k = "And" -> Branch(Shape(e.lhs), "&&", Shape(e.rhs))
      [] e.k = "Or" -> Branch(Shape(e.lhs), "||", Shape(e.rhs))
      [] e.k = "In" -> Branch(Shape(e.lhs), "in", Shape(e.rhs))

\* the operator that ends up at the root of operands lo..hi: one of lowest
\* precedence, the first of them when they bind right, the last when left
RootOp(ops, lo, hi) ==
    LET lowest == {j \in lo..(hi - 1) :
                      \A m \in lo..(hi - 1) : precedence(T(ops[j])) <= precedence(T(ops[m]))}
    IN IF \E j \in lowest : is_bind_right(T(ops[j]))
       THEN CHOOSE j \in lowest : \A m \in lowest : j <= m
       ELSE CHOOSE j \in lowest : \A m \in lowest : m <= j

RECURSIVE Climb(_, _, _)
\* the tree of operands lo..hi by precedence and binding direction
Climb(ops, lo, hi) ==
    IF lo = hi THEN Leaf(OperandNames[lo])
    ELSE LET j == RootOp(ops, lo, hi)
         IN Branch(Climb(ops, lo, j), syntax(T(ops[j])), Climb(ops, j + 1, hi))

\* C20: for operands joined by binary operators, parse_binary_op builds the
\* tree dictated by precedence() and is_bind_right(): an operand between two
\* operators goes to the right one iff it has higher precedence, or equal
\* precedence and binds right; `a-b-c` is `(a-b)-c`, `a.b.c` is
\* `Dot(a, Dot(b, c))`.
C20_PrecedenceTree ==
    Parsed /\ input \in OpScripts =>
       LET ops == OpsOf(input) IN
       /\ ops \in OpCases /\ input = OpScript(ops)
       /\ result = "ok"
       /\ Len(statements) = 1 /\ statements[1].k = "Expr"
       /\ Shape(statements[1].expr) = Climb(ops, 1, Len(ops) + 1)

C20_Witness ==
    \/ /\ input = OpScript(<<"Minus", "Minus">>)
       /\ result = "ok"
       /\ Shape(statements[1].expr)
             = Branch(Branch(Leaf("x1"), "-", Leaf("x2")), "-", Leaf("x3"))
    \/ /\ input = OpScript(<<"Period", "Period">>)
       /\ result = "ok"
       /\ statements[1].expr.k = "Dot" /\ statements[1].expr.rhs.k = "Dot"
       /\ Shape(statements[1].expr)
             = Branch(Leaf("x1"), ".", Branch(Leaf("x2"), ".", Leaf("x3")))
    \/ /\ input = OpScript(<<"Plus", "PowerOf", "Multiply">>)
       /\ result = "ok"
       /\ Shape(statements[1].expr)
             = Branch(Leaf("x1"), "+",
                      Branch(Branch(Leaf("x2"), "~", Leaf("x3")), "*", Leaf("x4")))

(***************************************************************************)
(* Unary prefixes against binary operators (SpecExpr).                     *)
(***************************************************************************)
IsBinary(e) ==
    \/ e.k \in {"Dot", "And", "Or", "In"}
    \/ e.k = "FnCall" /\ Len(e.args) = 2
\* the operator, the left and the right operand of a binary node
OperatorOf(e) ==
    CASE e.k = "FnCall" -> e.name
      [] e.k = "Dot" -> "."
      [] e.k = "And" -> "&&"
      [] e.k = "Or" -> "||"
      [] e.k = "In" -> "in"
LeftOf(e) == IF e.k = "FnCall" THEN e.args[1] ELSE e.lhs
RightOf(e) == IF e.k = "FnCall" THEN e.args[2] ELSE e.rhs

\* e is the operand `a` with its postfix part
IsOperand(e, postfix) ==
    CASE postfix = "none" -> e.k = "Variable" /\ e.name = "a" /\ e.modules = <<>>
      [] postfix = "call" -> e.k = "FnCall" /\ e.name = "a" /\ Len(e.args) = 1
      [] postfix = "index" -> e.k = "Index" /\ e.lhs.k = "Variable" /\ e.lhs.name = "a"
      [] postfix = "module" ->
            e.k = "Variable" /\ e.name = "c" /\ ModNames(e.modules) = <<"a">>

\* e is the prefix applied to the operand and to nothing more
IsPrefixed(e, prefix, postfix) ==
    CASE prefix = "UnaryPlus" -> IsOperand(e, postfix)
      [] prefix = "UnaryMinus" ->
            e.k = "FnCall" /\ e.name = "-" /\ Len(e.args) = 1 /\ IsOperand(e.args[1], postfix)
      [] prefix = "Bang" ->
            e.k = "FnCall" /\ e.name = "!" /\ Len(e.args) = 1 /\ IsOperand(e.args[1], postfix)

\* C21: a prefix -, + or ! takes the unary or primary expression after it,
\* postfix parts included, and never what follows a binary operator:
\* `-a op b` is `(-a) op b` and `!a op b` is `(!a) op b` for every binary
\* operator, `.`, `&&`, `||` and `in` included.
C21_UnaryBindsTighter ==
    Parsed /\ input \in UnaryScripts =>
       \A d \in UnaryCases :
          input = UnaryScript(d) =>
             /\ result = "ok"
             /\ Len(statements) = 1 /\ statements[1].k = "Expr"
             /\ LET e == statements[1].expr IN
                /\ IsBinary(e) /\ OperatorOf(e) = syntax(T(d.op))
                /\ IsPrefixed(LeftOf(e), d.prefix, d.postfix)
                /\ RightOf(e).k \in {"Variable", "Property"} /\ RightOf(e).name = "b"

C21_Witness ==
    /\ input = UnaryScript(UnaryCase("Bang", "call", "Period"))
    /\ result = "ok"
    /\ statements[1].expr.k = "Dot"
    /\ statements[1].expr.lhs.name = "!"
    /\ statements[1].expr.rhs.k = "Property"

(***************************************************************************)
(* Default values of function calls (SpecExpr).                            *)
(***************************************************************************)
ComparisonNames == {"==", "!=", "<", "<=", ">", ">="}
IsComparison(e) == e.name \in ComparisonNames /\ Len(e.args) = 2
IsNot(e) == e.name = "!" /\ Len(e.args) = 1

\* C22: a FnCall node carries the default value Some(false) when it is a
\* comparison ==, !=, <, <=, >, >= or the unary !, and no default in every
\* other case: arithmetic, bitwise and shift operators, unary -, the call
\* made for an op-assignment, a call of a function by name.
C22_DefaultOnlyForComparisons ==
    LET P(n, scope) ==
           IsFnCall(n) =>
              IF IsComparison(n.e) \/ IsNot(n.e) THEN n.e.def = "false" ELSE n.e.def = "None"
    IN AllNodes(P)

C22_Witness ==
    \/ /\ input = UnaryScript(UnaryCase("Bang", "call", "LessThan"))
       /\ result = "ok"
       /\ statements[1].expr.def = "false"
       /\ statements[1].expr.args[1].def = "false"
       /\ statements[1].expr.args[1].args[1].def = "None"
    \/ /\ input = OpAssignScript("MinusAssign")
       /\ result = "ok"
       /\ statements[1].expr.k = "Assignment"
       /\ statements[1].expr.rhs.name = "-" /\ statements[1].expr.rhs.def = "None"

(***************************************************************************)
(* Functions defined more than once (SpecExpr).                            *)
(***************************************************************************)
Signature(def) == <<def.name, def.arity>>
\* the last definition of the signature of the j-th
LastOf(d, j) ==
    CHOOSE m \in 1..Len(d) :
       /\ Signature(d[m]) = Signature(d[j])
       /\ \A x \in (m + 1)..Len(d) : Signature(d[x]) # Signature(d[j])
\* the number written in the body of a parsed definition
BodyMark(func) == func.body.stmts[1].expr.v

\* C23: function definitions of one name and one number of parameters are
\* no error; the library then holds one entry per (name, number of
\* parameters), the textually last definition whatever its access, and
\* definitions of one name with different numbers of parameters coexist.
C23_LastDefinitionWins ==
    Parsed /\ input \in LibraryScripts =>
       \A d \in LibraryCases :
          input = LibraryScript(d) =>
             /\ result = "ok"
             /\ Cardinality(DOMAIN functions)
                   = Cardinality({Signature(d[j]) : j \in 1..Len(d)})
             /\ \A j \in 1..Len(d) :
                   \E h \in DOMAIN functions :
                      /\ functions[h].name = d[j].name
                      /\ Len(functions[h].params) = d[j].arity
                      /\ BodyMark(functions[h]) = LastOf(d, j)
                      /\ functions[h].access = d[LastOf(d, j)].access

C23_Witness ==
    /\ input = LibraryScript(<<Defined("f", 0, "Private"), Defined("f", 1, "Public"),
                               Defined("f", 0, "Public")>>)
    /\ result = "ok"
    /\ Cardinality(DOMAIN functions) = 2
    /\ \E h \in DOMAIN functions :
          functions[h].params = <<>> /\ BodyMark(functions[h]) = 3
             /\ functions[h].access = "Public"

(***************************************************************************)
(* Timestamps without floats (SpecTime).                                   *)
(***************************************************************************)
\* the later and the earlier of the two timestamps, and the whole seconds between them
LaterOf(a, b) == IF Instant_gt(b, a) THEN b ELSE a
EarlierOf(a, b) == IF Instant_gt(b, a) THEN a ELSE b
WholeSeconds(a, b) == as_secs(Instant_sub(LaterOf(a, b), EarlierOf(a, b)))

\* the rule of subtraction and of `elapsed` without floats, `negative` telling
\* when the difference ts1 - ts2 is below zero
TimestampRule(negative) ==
    /\ no_float /\ top = "-" =>
          /\ tout.k = "Int" /\ WholeSeconds(ts1, ts2).hi = 0 =>
                /\ tout.v < 0 <=> negative
                /\ ts1 = ts2 => tout.v = 0
                /\ WholeSeconds(ts1, ts2).lo = (IF tout.v < 0 THEN 0 - tout.v ELSE tout.v)
          /\ tout.k = "Int" /\ tout.v # MIN_INT =>
                \A back \in timestamp_sub(ts2, ts1) :
                   back.k = "Int" /\ back.v # MIN_INT => tout.v + back.v = 0
          /\ ~unchecked =>
                IF WholeSeconds(ts1, ts2).hi = 1
                THEN tout = ErrorArithmetic
                ELSE tout.k = "Int"
          /\ unchecked => tout.k # "ErrorArithmetic"
    /\ no_float /\ top = "elapsed" =>
          /\ ~unchecked =>
                IF WholeSeconds(ts1, ts2).hi = 1
                THEN tout = ErrorArithmetic
                ELSE tout = TimeInt(WholeSeconds(ts1, ts2).lo)
          /\ unchecked => tout.k # "ErrorArithmetic"

\* C24 as stated: without floats ts1 - ts2 is the whole seconds between the
\* two instants, negative iff ts2 is later than ts1, zero for equal instants
\* and the opposite of ts2 - ts1; beyond MAX_INT seconds it is
\* ErrorArithmetic unless the build is unchecked, and so for `elapsed`.
C24_SignedWholeSeconds == TimestampRule(Instant_gt(ts2, ts1))

\* C24: without floats ts1 - ts2 is the whole seconds between the two
\* instants, negative iff ts2 is later than ts1 by a whole second or more
\* (instants less than a second apart give zero), zero for equal instants
\* and the opposite of ts2 - ts1; beyond MAX_INT seconds it is
\* ErrorArithmetic unless the build is unchecked, and so for `elapsed`.
C24_SignedWholeSecondsOrZero ==
    TimestampRule(Instant_gt(ts2, ts1) /\ WholeSeconds(ts1, ts2) # U64(0, 0))

C24_Witness ==
    \/ /\ no_float /\ ~unchecked /\ top = "-"
       /\ ts1 = Instant(0 - 1, 1) /\ ts2 = Instant(MAX_INT, 0)
       /\ tout = TimeInt(0 - MAX_INT)
    \/ /\ no_float /\ ~unchecked /\ top = "-"
       /\ ts1 = Instant(0 - 1, 0) /\ ts2 = Instant(MAX_INT, 0)
       /\ tout = ErrorArithmetic
    \/ /\ no_float /\ ~unchecked /\ top = "elapsed"
       /\ ts1 = Instant(MIN_INT, 0) /\ ts2 = Instant(MAX_INT, 1)
       /\ tout = ErrorArithmetic
    \/ /\ no_float /\ top = "-"
       /\ ts1 = Instant(0, 0) /\ ts2 = Instant(0, 1)
       /\ tout = TimeInt(0)

\* the literal of a script of TruncatedScripts
LiteralOf(script) == IF script[1].t = "Let" THEN SubSeq(script, 4, Len(script)) ELSE script

\* C25: an array or object map literal whose token stream reaches EOF before
\* the closing delimiter is rejected with MissingToken for that delimiter,
\* and no Array or Map node is built.
C25_UnclosedLiteralRejected ==
    Parsed /\ input \in TruncatedScripts =>
       /\ Rejected("MissingToken")
       /\ perr.arg = (IF ClosingOf(LiteralOf(input)) = "RightBracket" THEN "]" ELSE "}")

\* a script of BreakScripts parses, or is rejected for its break or continue
BreakableRule(accepted(_)) ==
    Parsed /\ input \in BreakScripts =>
       \A d \in BreakCases :
          input = BreakScript(d) =>
             IF accepted(d) THEN result = "ok" ELSE Rejected("LoopBreak")

InLoopBody(d) == d.body \in LoopKinds
InLoopStatements(d) == d.body \in LoopKinds /\ d.place \notin ExprPlaces

\* C26 as stated: a break or continue is accepted exactly when a loop body of
\* its function encloses it, whether it is reached through blocks and `if`
\* statements or through an `if` or block in expression position.
C26_BreakableInLoopBody == BreakableRule(InLoopBody)

\* C26: a break or continue is accepted exactly when a loop body of its
\* function encloses it and it is reached from that body through statement
\* blocks and the branches of `if` statements only; inside an `if` or block
\* in expression position it is rejected with LoopBreak, also inside a loop.
C26_BreakableInLoopStatements == BreakableRule(InLoopStatements)

C26_Witness ==
    \/ /\ input = BreakScript(BreakCase("for", "else if", <<T("Break")>> \o Semi))
       /\ result = "ok"
    \/ /\ input = BreakScript(BreakCase("loop", "let if", <<T("Continue")>> \o Semi))
       /\ Rejected("LoopBreak")

\* C27: parsing terminates.  Every turn of the global-level loop either is
\* the last or consumes a token, never reading past the EOF that ends the
\* script, so that a script of n tokens is parsed in at most n + 1 turns;
\* and no turn of an inner loop (of parse_block, parse_call_expr,
\* parse_array_literal, parse_map_literal, parse_binary_op) starts where the
\* turn before it started.
C27_ParsingTerminates ==
    /\ [][result' # "parsing" \/ (ipos' > ipos /\ ipos' <= Len(input) + 1)]_vars
    /\ [](perr.type # "Diverges")

C27_Witness ==
    \/ /\ input = OpenBrace \o Semi \o Semi \o OpenBrace \o Close \o Semi \o ReadX
                     \o Close \o Semi
       /\ result = "ok" /\ ipos = Len(input) + 1
       /\ Len(statements) = 2 /\ Len(statements[1].stmts) = 5
    \/ /\ input = OpenBrace \o OpenBrace \o Close \o Semi
       /\ Rejected("MissingToken") /\ perr.arg = ";"
    \/ /\ input = OpenBrace \o Close \o Semi \o Semi \o OpenBrace \o Close
       /\ result = "ok" /\ Len(statements) = 4

\* C28: get_constant_value and get_constant_str return a value, and do not
\* panic, on every expression that is_constant accepts.
C28_ConstantsHaveValues ==
    HasSubjectExpr /\ is_constant(SubjectExpr) =>
       /\ cvalue # NotConstant
       /\ cstring # NotConstant

\* the statements that are never pure, and the expressions with an effect
NeverPure == {"Let", "Const", "Break", "Continue", "ReturnWithVal", "Import", "Export"}
Effectful == {"FnCall", "Assignment", "Dot"}

\* every statement at or below the first statement of the script
SubjectVisits == WalkStmt(Subject, FALSE, <<>>)

\* C29: is_pure is sound.  A statement it calls pure holds no `let`, `const`,
\* `break`, `continue`, `return`, `throw`, `import` or `export`, and no
\* expression in it, the guards of `if` and `while` included, is a function
\* call, an assignment or a dot access.
C29_PureIsSound ==
    HasSubject /\ pure = "true" =>
       /\ \A j \in 1..Len(SubjectVisits) : SubjectVisits[j].st.k \notin NeverPure
       /\ LET P(n, scope) == n.e.k \notin Effectful IN NodesOfVisits(SubjectVisits, P)

\* C30: after a call through an adapter the caller's arguments from the
\* second on are what they were, and so is the first unless the function was
\* registered with a `&mut` first parameter.
C30_OnlyFirstByReference ==
    call.made =>
       /\ Len(outcome.args) = Len(call.args)
       /\ \A j \in 2..Len(call.args) : outcome.args[j] = call.args[j]
       /\ reg.mark # "Mut" /\ call.args # <<>> => outcome.args[1] = call.args[1]

C30_Witness ==
    /\ call.made /\ outcome.invoked /\ outcome.kind = "Ok"
    /\ reg.mark = "Mut" /\ reg.f.mutates
    /\ Len(call.args) = 2
    /\ outcome.args[1] = Dynamic(call.args[1].type, "written")
    /\ outcome.args[1] # call.args[1]
    /\ outcome.args[2] = call.args[2]

====
